---------------------------- MODULE Spec2Model ----------------------------
(***************************************************************************)
(* Model of the record framework of src/common/test_framework.h: the       *)
(* StringSegment view, the scalar codec (Encode / Parse), the field        *)
(* adapter and the table adapters.                                         *)
(*                                                                         *)
(* A text (std::string, std::string_view) is a sequence of one-character   *)
(* strings.  A C++ int is an integer of IntMin..IntMax; arithmetic that    *)
(* may leave the range wraps as a 32-bit two's-complement value.           *)
(***************************************************************************)
EXTENDS Integers, Sequences, FiniteSets

VARIABLES
    kind,        \* scalar kind C of the FieldAdapter<T, C> under test
    field,       \* value of the bound field (var.*field_pointer)
    out,         \* the caller's output std::string (ToString / GetValue)
    text,        \* text argument of the last FromString call
    ret,         \* return value of the last FromString call
    before,      \* value of the bound field when the last FromString began
    outBefore,   \* content of out when the last ToString began
    parsedBack,  \* the field of a second, fresh record that out was parsed into
    pc,          \* position of the codec driver
    columnSpecs, \* AbstractTableAdapter::columnSpecs
    name2id,     \* AbstractTableAdapter::name2id
    data,        \* the caller's std::vector<T> behind a TableAdapter
    call,        \* the last table operation and what it returned
    header,      \* the caller's ProblemSetHeader behind a RecordAdapter
    isHeaderSection, \* BasicYamlParser::isHeaderSection
    isOK,        \* AbstractLineParser::isOK
    lineNumber,  \* AbstractLineParser::lineNumber
    throwOnError, \* AbstractLineParser::throwOnError
    currentFile, \* AbstractLineParser::currentFile
    raised,      \* the exception that left ParseFile, or [type |-> "none"]
    parse,       \* position of ParseFile: idle, reading, returned, raised
    line,        \* the line std::getline read last
    consumed,    \* number of lines taken from the input stream so far
    stream,      \* the lines WriteTableToStream wrote, and how it was called
    reparsed,    \* fresh storage the written lines were parsed into
    run,         \* the scheduler's main: its position and what it did
    schedule,    \* FindMaxSchedule: its argument, its locals and its position
    prize,       \* FindMaxPrizeCollectingPath: argument, locals and position
    indep        \* FindIndependentSet_BottomUp and _TopDown: the same

codecVars == <<kind, field, out, text, ret, before, outBefore, parsedBack, pc>>
tableVars == <<columnSpecs, name2id, data, call>>
parserVars == <<header, isHeaderSection, isOK, lineNumber, throwOnError,
                currentFile, raised, parse, line, consumed>>
writerVars == <<stream, reparsed>>
algVars == <<schedule, prize, indep>>
vars == <<kind, field, out, text, ret, before, outBefore, parsedBack, pc,
          columnSpecs, name2id, data, call,
          header, isHeaderSection, isOK, lineNumber, throwOnError,
          currentFile, raised, parse, line, consumed, stream, reparsed, run,
          schedule, prize, indep>>

---------------------------------------------------------------------------
(* Bounds of the model.                                                    *)

MaxLen == 3      \* longest free text over an alphabet
MaxBody == 4     \* longest free text between the brackets of a sequence
MaxSmall == 12   \* integers -MaxSmall..MaxSmall and that close to the limits
MaxSeq == 2      \* longest integer sequence that is encoded
MaxCols == 2     \* most columns registered with one table
MaxRows == 2     \* most rows appended to one table

---------------------------------------------------------------------------
(* Characters and the <cctype> helpers.                                    *)

NUL == "NUL"     \* the character '\0'

UpperCase == <<"A","B","C","D","E","F","G","H","I","J","K","L","M",
               "N","O","P","Q","R","S","T","U","V","W","X","Y","Z">>
LowerCase == <<"a","b","c","d","e","f","g","h","i","j","k","l","m",
               "n","o","p","q","r","s","t","u","v","w","x","y","z">>
DecimalDigits == <<"0","1","2","3","4","5","6","7","8","9">>

tf_isspace(c) == c \in {" ", "\t", "\n", "\f", "\r"}

tf_isdigit(c) == \E i \in 1..10 : DecimalDigits[i] = c

tf_tolower(c) ==
    IF \E i \in 1..26 : UpperCase[i] = c
    THEN LowerCase[CHOOSE i \in 1..26 : UpperCase[i] = c]
    ELSE c

\* c - '0' for a decimal digit c
DigitValue(c) == (CHOOSE i \in 1..10 : DecimalDigits[i] = c) - 1

\* static_cast<char>(d + '0') for 0 <= d <= 9
DigitChar(d) == DecimalDigits[d + 1]

---------------------------------------------------------------------------
(* 32-bit int arithmetic.                                                  *)

IntMax == 2147483647
IntMin == -IntMax - 1

\* C++ integer division and remainder by 10: truncation toward zero.
Div10(a) ==
    IF a >= 0 \/ a % 10 = 0 THEN a \div 10 ELSE (a \div 10) + 1

Mod10(a) ==
    IF a >= 0 \/ a % 10 = 0 THEN a % 10 ELSE (a % 10) - 10

\* result * 10 + digit in 32-bit two's complement, computed on 16-bit
\* halves so that no intermediate value leaves the 32-bit range.
Mul10Add(result, digit) ==
    LET hi  == result \div 65536
        lo  == result % 65536
        low == lo * 10 + digit
        h   == hi * 10 + (low \div 65536)
    IN  ((((h + 32768) % 65536) - 32768) * 65536) + (low % 65536)

---------------------------------------------------------------------------
(* class StringSegment: the view is the sequence of its characters.        *)

IsEmpty(view) == view = <<>>
Length(view) == Len(view)

\* ReadLeft / ReadRight: the character read and the narrowed view
ReadLeft(view) ==
    IF view = <<>> THEN [c |-> NUL, view |-> view]
    ELSE [c |-> Head(view), view |-> Tail(view)]

ReadRight(view) ==
    IF view = <<>> THEN [c |-> NUL, view |-> view]
    ELSE [c |-> view[Len(view)], view |-> SubSeq(view, 1, Len(view) - 1)]

FirstChar(view) == view[1]
LastChar(view) == view[Len(view)]

RemovePrefix(view, count) ==
    SubSeq(view, (IF count < Len(view) THEN count ELSE Len(view)) + 1, Len(view))

RemoveSuffix(view, count) ==
    SubSeq(view, 1, Len(view) - (IF count < Len(view) THEN count ELSE Len(view)))

RECURSIVE TrimLeft(_)
TrimLeft(view) ==
    IF view # <<>> /\ (tf_isspace(view[1]) \/ view[1] = "\r")
    THEN TrimLeft(Tail(view))
    ELSE view

RECURSIVE TrimRight(_)
TrimRight(view) ==
    IF view # <<>> /\ (tf_isspace(view[Len(view)]) \/ view[Len(view)] = "\r")
    THEN TrimRight(SubSeq(view, 1, Len(view) - 1))
    ELSE view

Trim(view) == TrimRight(TrimLeft(view))

MatchCase(view, pattern, caseSensitive) ==
    IF Len(pattern) # Len(view) THEN FALSE
    ELSE IF caseSensitive THEN pattern = view
    ELSE \A i \in 1..Len(view) : tf_tolower(pattern[i]) = tf_tolower(view[i])

\* Match comparing the characters as they are
Match_CaseSensitive(view, pattern) == MatchCase(view, pattern, TRUE)

\* Match with the default argument caseSensitive = false
Match(view, pattern) == MatchCase(view, pattern, FALSE)

\* Split cutting at the last delimiter instead of the first
Split_AtLastDelimiter(view, delimiter) ==
    IF view = <<>> THEN [ret |-> FALSE, prefix |-> <<>>, view |-> <<>>]
    ELSE IF \A i \in 1..Len(view) : view[i] # delimiter
    THEN [ret |-> TRUE, prefix |-> view, view |-> <<>>]
    ELSE LET pos == CHOOSE i \in 1..Len(view) :
                        /\ view[i] = delimiter
                        /\ \A j \in (i + 1)..Len(view) : view[j] # delimiter
         IN  [ret |-> TRUE,
              prefix |-> SubSeq(view, 1, pos - 1),
              view |-> SubSeq(view, pos + 1, Len(view))]

\* Split at the first delimiter: the return value, the prefix and the
\* narrowed view (*this).
Split(view, delimiter) ==
    IF view = <<>> THEN [ret |-> FALSE, prefix |-> <<>>, view |-> <<>>]
    ELSE IF \A i \in 1..Len(view) : view[i] # delimiter
    THEN [ret |-> TRUE, prefix |-> view, view |-> <<>>]
    ELSE LET pos == CHOOSE i \in 1..Len(view) :
                        /\ view[i] = delimiter
                        /\ \A j \in 1..(i - 1) : view[j] # delimiter
         IN  [ret |-> TRUE,
              prefix |-> SubSeq(view, 1, pos - 1),
              view |-> SubSeq(view, pos + 1, Len(view))]

\* std::string::resize(n): truncates, or pads with '\0'
Resize(str, n) ==
    [i \in 1..n |-> IF i <= Len(str) THEN str[i] ELSE NUL]

\* str[pos] = c, pos counted from 0 as in the source
SetChar(str, pos, c) == [str EXCEPT ![pos + 1] = c]

---------------------------------------------------------------------------
(* Encoding helpers.                                                       *)

RECURSIVE CountDigits(_)
\* the loop of IntLen: one step for every decimal digit of value
CountDigits(value) ==
    IF value = 0 THEN 0 ELSE 1 + CountDigits(Div10(value))

IntLen(value) ==
    IF value = 0 THEN 1
    ELSE (IF value < 0 THEN 1 ELSE 0) + CountDigits(value)

RECURSIVE WriteDigits(_, _, _, _)
\* the loop of IntToStrHelper: digits written from lsPos leftwards
WriteDigits(value, sign, result, lsPos) ==
    IF value = 0 THEN result
    ELSE WriteDigits(Div10(value), sign,
                     SetChar(result, lsPos, DigitChar(sign * Mod10(value))),
                     lsPos - 1)

\* IntToStrHelper(value, result, pos): the string after the call and the
\* position returned
IntToStrHelper(value, result, pos) ==
    LET len     == IntLen(value)
        resized == IF Len(result) < pos + len
                   THEN Resize(result, pos + len) ELSE result
    IN  IF value = 0
        THEN [str |-> SetChar(resized, pos, "0"), pos |-> pos + 1]
        ELSE LET sign   == IF value < 0 THEN -1 ELSE 1
                 signed == IF value < 0
                           THEN SetChar(resized, pos, "-") ELSE resized
             IN  [str |-> WriteDigits(value, sign, signed, pos + len - 1),
                  pos |-> pos + len]

\* Encode(int value, std::string& out)
EncodeInt(value, o) == IntToStrHelper(value, o, 0).str

\* Encode(bool value, std::string& out)
EncodeBool(value, o) == IF value THEN <<"y", "e", "s">> ELSE <<"n", "o">>

\* Encode(const std::string& value, std::string& out)
EncodeString(value, o) == <<"\"">> \o value \o <<"\"">>

RECURSIVE SumIntLen(_)
\* the first loop of Encode(vector): IntLen(v) + 1 for every element
SumIntLen(value) ==
    IF value = <<>> THEN 0
    ELSE IntLen(Head(value)) + 1 + SumIntLen(Tail(value))

RECURSIVE WriteElements(_, _, _)
\* the second loop of Encode(vector): each element followed by a comma
WriteElements(value, o, pos) ==
    IF value = <<>> THEN [str |-> o, pos |-> pos]
    ELSE LET w == IntToStrHelper(Head(value), o, pos)
         IN  WriteElements(Tail(value), SetChar(w.str, w.pos, ","), w.pos + 1)

\* Encode(const std::vector<int>& value, std::string& out)
EncodeIntVector(value, o) ==
    IF value = <<>> THEN <<"[", "]">>
    ELSE LET totalLen == 2 + SumIntLen(value) - 1
             w == WriteElements(value, SetChar(Resize(o, totalLen), 0, "["), 1)
         IN  SetChar(w.str, w.pos - 1, "]")

---------------------------------------------------------------------------
(* Parsing helpers.  Each Parse returns [ok, result]: the return value and *)
(* the content of the reference parameter result when the call returns.    *)

posOverflowGuard == IntMax \div 10
posLastDigitGuard == IntMax % 10
negOverflowGuard == Div10(IntMin)
negLastDigitGuard == Mod10(IntMin)

\* Overflows with >= and <= where the source compares with > and <
Overflows_Strict(result, digit) ==
    \/ result >= posOverflowGuard
    \/ result <= negOverflowGuard

\* Overflows without the comparisons of the last digit
Overflows_NoLastDigit(result, digit) ==
    \/ result > posOverflowGuard
    \/ result < negOverflowGuard

\* the overflow test of the digit loop of Parse(StringSegment, int&)
Overflows(result, digit) ==
    \/ result > posOverflowGuard
    \/ result < negOverflowGuard
    \/ (result = posOverflowGuard /\ digit > posLastDigitGuard)
    \/ (result = negOverflowGuard /\ digit < negLastDigitGuard)

RECURSIVE ParseDigits(_, _, _)
\* the digit loop of Parse(StringSegment, int&)
ParseDigits(segment, sign, result) ==
    IF segment = <<>> THEN [ok |-> TRUE, result |-> result]
    ELSE LET c == ReadLeft(segment).c
         IN  IF ~tf_isdigit(c) THEN [ok |-> FALSE, result |-> result]
             ELSE LET digit == DigitValue(c) * sign
                  IN  IF Overflows(result, digit)
                      THEN [ok |-> FALSE, result |-> result]
                      ELSE ParseDigits(ReadLeft(segment).view, sign,
                                       Mul10Add(result, digit))

\* Parse(StringSegment segment, int& result)
ParseInt(segment, result) ==
    LET s == Trim(segment)
    IN  IF IsEmpty(s) THEN [ok |-> FALSE, result |-> 0]
        ELSE LET sign == IF FirstChar(s) = "-" THEN -1 ELSE 1
                 rest == IF sign = -1 THEN RemovePrefix(s, 1) ELSE s
             IN  IF sign = -1 /\ IsEmpty(rest)
                 THEN [ok |-> FALSE, result |-> 0]
                 ELSE ParseDigits(rest, sign, 0)

\* ParseString without the test of the last character
ParseString_NoTrailingQuote(segment, result) ==
    LET s == Trim(segment)
    IN  IF Length(s) < 2 THEN [ok |-> FALSE, result |-> result]
        ELSE IF FirstChar(s) # "\""
        THEN [ok |-> FALSE, result |-> result]
        ELSE [ok |-> TRUE, result |-> RemoveSuffix(RemovePrefix(s, 1), 1)]

\* Parse(StringSegment segment, std::string& result)
ParseString(segment, result) ==
    LET s == Trim(segment)
    IN  IF Length(s) < 2 THEN [ok |-> FALSE, result |-> result]
        ELSE IF FirstChar(s) # "\"" \/ LastChar(s) # "\""
        THEN [ok |-> FALSE, result |-> result]
        ELSE [ok |-> TRUE, result |-> RemoveSuffix(RemovePrefix(s, 1), 1)]

\* Parse(StringSegment segment, bool& result)
ParseBool(segment, result) ==
    LET s == Trim(segment)
    IN  IF Match(s, <<"t", "r", "u", "e">>) \/ Match(s, <<"y", "e", "s">>)
        THEN [ok |-> TRUE, result |-> TRUE]
        ELSE IF Match(s, <<"f", "a", "l", "s", "e">>) \/ Match(s, <<"n", "o">>)
        THEN [ok |-> TRUE, result |-> FALSE]
        ELSE [ok |-> FALSE, result |-> result]

\* ParseElements leaving its loop after the first element
ParseElements_FirstOnly(segment, prefix, result) ==
    IF IsEmpty(prefix) THEN [ok |-> TRUE, result |-> result]
    ELSE LET p == ParseInt(prefix, 0)
         IN  IF ~p.ok THEN [ok |-> FALSE, result |-> result]
             ELSE [ok |-> TRUE, result |-> Append(result, p.result)]

RECURSIVE ParseElements(_, _, _)
\* the while loop of Parse(StringSegment, std::vector<int>&)
ParseElements(segment, prefix, result) ==
    IF IsEmpty(prefix) THEN [ok |-> TRUE, result |-> result]
    ELSE LET p == ParseInt(prefix, 0)
         IN  IF ~p.ok THEN [ok |-> FALSE, result |-> result]
             ELSE LET sp == Split(segment, ",")
                  IN  IF ~sp.ret
                      THEN [ok |-> TRUE, result |-> Append(result, p.result)]
                      ELSE ParseElements(sp.view, sp.prefix,
                                         Append(result, p.result))

\* Parse(StringSegment segment, std::vector<int>& result)
ParseIntVector(segment, result) ==
    LET s == Trim(segment)
    IN  IF IsEmpty(s) THEN [ok |-> FALSE, result |-> <<>>]
        ELSE LET l     == ReadLeft(s)
                 r     == ReadRight(l.view)
                 inner == Trim(r.view)
             IN  IF l.c # "[" \/ r.c # "]" THEN [ok |-> FALSE, result |-> <<>>]
                 ELSE IF IsEmpty(inner) THEN [ok |-> TRUE, result |-> <<>>]
                 ELSE LET sp == Split(inner, ",")
                      IN  ParseElements(sp.view, sp.prefix, <<>>)

---------------------------------------------------------------------------
(* FieldAdapter<T, C>, C one of the four scalar kinds.                     *)

Kinds == {"int", "bool", "string", "ints"}

\* FieldAdapter::FromString: Parse(s, var.*field_pointer)
FromString(k, var, s) ==
    CASE k = "int"    -> ParseInt(s, var)
      [] k = "bool"   -> ParseBool(s, var)
      [] k = "string" -> ParseString(s, var)
      [] k = "ints"   -> ParseIntVector(s, var)

\* FieldAdapter::ToString: Encode(var.*field_pointer, out)
ToString(k, var, o) ==
    CASE k = "int"    -> EncodeInt(var, o)
      [] k = "bool"   -> EncodeBool(var, o)
      [] k = "string" -> EncodeString(var, o)
      [] k = "ints"   -> EncodeIntVector(var, o)

\* a value-initialised field, C{}
ValueInit(k) ==
    CASE k = "int"    -> 0
      [] k = "bool"   -> FALSE
      [] k = "string" -> <<>>
      [] k = "ints"   -> <<>>

---------------------------------------------------------------------------
(* Inputs of the codec: the texts handed to FromString and the values a    *)
(* caller stores in a field.                                               *)

StringsUpTo(alphabet, n) == UNION {[1..k -> alphabet] : k \in 0..n}

BoundaryIntTexts ==
    { <<"2","1","4","7","4","8","3","6","4","7">>,
      <<"2","1","4","7","4","8","3","6","4","8">>,
      <<"2","1","4","7","4","8","3","6","5","0">>,
      <<"2","1","4","7","4","8","3","6","3","9">>,
      <<"3","0","0","0","0","0","0","0","0","0">>,
      <<"-","2","1","4","7","4","8","3","6","4","8">>,
      <<"-","2","1","4","7","4","8","3","6","4","9">>,
      <<"-","2","1","4","7","4","8","3","6","5","0">>,
      <<"-","2","1","4","7","4","8","3","6","4","7">>,
      <<"2","1","4","7","4","8","3","6","4","7","0">>,
      <<"9","9","9","9","9","9","9","9","9","9","9">>,
      <<"-","9","9","9","9","9","9","9","9","9","9","9">>,
      <<"0","0","0","0","0","0","0","0","0","0","0","1","2">>,
      <<" ","-","2","1","4","7","4","8","3","6","4","8","\t">>,
      <<"4","2","9","4","9","6","7","2","9","6">>,
      <<"4","2","9","4","9","6","7","3","0","1">>,
      <<"1","2","+","3">>, <<"+","5">>, <<"1"," ","2">>, <<"-","-","1">> }

IntTexts ==
    StringsUpTo({" ", "-", "0", "1", "9", "x"}, MaxLen) \cup BoundaryIntTexts

tf_toupper(c) ==
    IF \E i \in 1..26 : LowerCase[i] = c
    THEN UpperCase[CHOOSE i \in 1..26 : LowerCase[i] = c]
    ELSE c

RECURSIVE CaseVariants(_)
\* every spelling of word in upper- and lower-case letters
CaseVariants(word) ==
    IF word = <<>> THEN {<<>>}
    ELSE {<<c>> \o v : c \in {Head(word), tf_toupper(Head(word))},
                       v \in CaseVariants(Tail(word))}

TrueWords == CaseVariants(<<"t","r","u","e">>) \cup CaseVariants(<<"y","e","s">>)
FalseWords == CaseVariants(<<"f","a","l","s","e">>) \cup CaseVariants(<<"n","o">>)

BoolTexts ==
    LET words == TrueWords \cup FalseWords
    IN  words
        \cup {<<" ">> \o w : w \in words}
        \cup {w \o <<" ", "\r">> : w \in words}
        \cup {w \o <<"s">> : w \in words}
        \cup {SubSeq(w, 1, Len(w) - 1) : w \in words}
        \cup StringsUpTo({"y", "E", "s", "n", "O", " ", "1", "0"}, MaxLen)

StringTexts == StringsUpTo({"\"", "a", " "}, MaxLen + 2)

BoundaryVectorTexts ==
    { <<"[","2","1","4","7","4","8","3","6","4","8","]">>,
      <<"[","1",",","-","2","1","4","7","4","8","3","6","4","8","]">>,
      <<" ","[","1","0"," ",","," ","-","9","]"," ">>,
      <<"[","1",",","x","]">>, <<"[","1",",","2",",",",","]">>,
      <<"[","1",",","2","]","]">>, <<"[","[","1","]">> }

IntVectorTexts ==
    {<<"[">> \o b \o <<"]">> :
        b \in StringsUpTo({",", "1", "2", "-", " "}, MaxBody)}
    \cup StringsUpTo({"[", "]", ",", "1", " "}, MaxLen)
    \cup BoundaryVectorTexts

Texts(k) ==
    CASE k = "int"    -> IntTexts
      [] k = "bool"   -> BoolTexts
      [] k = "string" -> StringTexts
      [] k = "ints"   -> IntVectorTexts

IntValues ==
    (-MaxSmall..MaxSmall)
    \cup {IntMax - d : d \in 0..MaxSmall}
    \cup {IntMin + d : d \in 0..MaxSmall}
    \cup {99, 100, 101, -99, -100, -101, 65535, 65536, -65536, 1000000000,
          -1000000000, 1999999999, 214748364, 214748365, -214748364,
          -214748365, 1234567890, -1234567890, 1073741824, -1073741824}

VectorElements == {0, -1, 7, 10, -120, IntMax, IntMin}

Values(k) ==
    CASE k = "int"    -> IntValues
      [] k = "bool"   -> BOOLEAN
      [] k = "string" -> StringsUpTo({"\"", "a", " ", ","}, MaxLen)
      [] k = "ints"   -> StringsUpTo(VectorElements, MaxSeq)

\* what the bound field holds before the driver's first call
StartValues(k) ==
    CASE k = "int"    -> {0, 5}
      [] k = "bool"   -> BOOLEAN
      [] k = "string" -> {<<>>, <<"a", "b">>}
      [] k = "ints"   -> {<<>>, <<7, -1>>}

\* what the caller's output string holds before the driver's first call
OutBuffers == {<<>>, <<"1", "2", "3", "4", "5">>, <<"n", "o">>}

---------------------------------------------------------------------------
(* The codec driver: one FieldAdapter bound to one field of one record.    *)
(* A caller parses a text into the field, or stores a value in it, then    *)
(* encodes the field into its string and parses that string into the same  *)
(* field of a fresh record.                                                *)

\* struct ProblemSetHeader as its member initialisers leave it; tStart is
\* kept by the runner
ProblemSetHeader ==
    [id |-> -1, problem_count |-> 0, test_mistakes |-> -1, time |-> -1]

\* the parser variables while no parser exists
ParserIdle ==
    /\ header = ProblemSetHeader
    /\ isHeaderSection = TRUE
    /\ isOK = TRUE
    /\ lineNumber = 0
    /\ throwOnError = FALSE
    /\ currentFile = ""
    /\ raised = [type |-> "none"]
    /\ parse = "idle"
    /\ line = <<>>
    /\ consumed = 0

\* the writer variables while nothing is written
WriterIdle ==
    /\ stream = [written |-> FALSE]
    /\ reparsed = [done |-> FALSE]

\* the runner variable while main does not run
RunnerIdle == run = [at |-> "none"]

\* no algorithm has been called
AlgIdle ==
    /\ schedule = [at |-> "none"]
    /\ prize = [at |-> "none"]
    /\ indep = [at |-> "none"]

\* the table variables while only the codec driver runs
TableIdle ==
    /\ columnSpecs = <<>>
    /\ name2id = [key \in {} |-> 0]
    /\ data = <<>>
    /\ call = [op |-> "none"]

InitCodec ==
    /\ kind \in Kinds
    /\ field \in StartValues(kind)
    /\ out \in OutBuffers
    /\ text = <<>>
    /\ ret = TRUE
    /\ before = field
    /\ outBefore = out
    /\ parsedBack = ValueInit(kind)
    /\ pc = "start"
    /\ TableIdle
    /\ ParserIdle
    /\ WriterIdle
    /\ RunnerIdle
    /\ AlgIdle

\* adapter.FromString(record, t)
CallFromString(t) ==
    /\ pc = "start"
    /\ LET p == FromString(kind, field, t)
       IN  /\ field' = p.result
           /\ ret' = p.ok
    /\ text' = t
    /\ before' = field
    /\ pc' = "parsed"
    /\ UNCHANGED <<kind, out, outBefore, parsedBack>>
    /\ UNCHANGED <<tableVars, parserVars, writerVars, run, algVars>>

\* record.member = v, written by the caller as main does with student_answer
AssignField(v) ==
    /\ pc = "start"
    /\ field' = v
    /\ pc' = "assigned"
    /\ UNCHANGED <<kind, out, text, ret, before, outBefore, parsedBack>>
    /\ UNCHANGED <<tableVars, parserVars, writerVars, run, algVars>>

\* adapter.ToString(record, out)
CallToString ==
    /\ pc \in {"start", "assigned"}
    /\ out' = ToString(kind, field, out)
    /\ outBefore' = out
    /\ pc' = "encoded"
    /\ UNCHANGED <<kind, field, text, ret, before, parsedBack>>
    /\ UNCHANGED <<tableVars, parserVars, writerVars, run, algVars>>

\* adapter.FromString(fresh, out) on a value-initialised record
CallFromStringOfOut ==
    /\ pc = "encoded"
    /\ LET p == FromString(kind, ValueInit(kind), out)
       IN  /\ parsedBack' = p.result
           /\ ret' = p.ok
    /\ text' = out
    /\ pc' = "reparsed"
    /\ UNCHANGED <<kind, field, out, before, outBefore>>
    /\ UNCHANGED <<tableVars, parserVars, writerVars, run, algVars>>

NextCodec ==
    \/ \E t \in Texts(kind) : CallFromString(t)
    \/ \E v \in Values(kind) : AssignField(v)
    \/ CallToString
    \/ CallFromStringOfOut

SpecCodec == InitCodec /\ [][NextCodec]_vars

---------------------------------------------------------------------------
(* Reference definitions the codec is compared with.  None of them uses a  *)
(* definition that models the code.                                        *)

RefSpace == {" ", "\t", "\n", "\f", "\r"}

\* t without its leading and trailing white space
RefTrim(t) ==
    LET solid == {i \in 1..Len(t) : t[i] \notin RefSpace}
    IN  IF solid = {} THEN <<>>
        ELSE SubSeq(t, CHOOSE i \in solid : \A j \in solid : i <= j,
                       CHOOSE i \in solid : \A j \in solid : j <= i)

RefDigits == [c \in {"0","1","2","3","4","5","6","7","8","9"} |->
                 CASE c = "0" -> 0 [] c = "1" -> 1 [] c = "2" -> 2
                   [] c = "3" -> 3 [] c = "4" -> 4 [] c = "5" -> 5
                   [] c = "6" -> 6 [] c = "7" -> 7 [] c = "8" -> 8
                   [] c = "9" -> 9]

RECURSIVE RefStripZeros(_)
RefStripZeros(d) ==
    IF Len(d) > 1 /\ d[1] = "0" THEN RefStripZeros(Tail(d)) ELSE d

\* a <= b for two digit strings of the same length
RefDigitsLeq(a, b) ==
    \/ a = b
    \/ \E i \in 1..Len(a) :
          /\ RefDigits[a[i]] < RefDigits[b[i]]
          /\ \A j \in 1..(i - 1) : a[j] = b[j]

RECURSIVE RefPow10(_)
RefPow10(n) == IF n = 0 THEN 1 ELSE 10 * RefPow10(n - 1)

RECURSIVE RefSum(_, _)
\* the number written by the digits d, times sgn, summed place by place
RefSum(d, sgn) ==
    IF d = <<>> THEN 0
    ELSE sgn * RefDigits[d[1]] * RefPow10(Len(d) - 1) + RefSum(Tail(d), sgn)

\* The reference recogniser of a decimal int: whether t, trimmed, is an
\* optional '-' and one or more digits of a value in [-2^31, 2^31 - 1], and
\* that value.
RefInt(t) ==
    LET s      == RefTrim(t)
        neg    == s # <<>> /\ s[1] = "-"
        digits == IF neg THEN Tail(s) ELSE s
        sig    == RefStripZeros(digits)
        limit  == IF neg THEN <<"2","1","4","7","4","8","3","6","4","8">>
                  ELSE <<"2","1","4","7","4","8","3","6","4","7">>
        valid  == /\ digits # <<>>
                  /\ \A i \in 1..Len(digits) : digits[i] \in DOMAIN RefDigits
                  /\ \/ Len(sig) < 10
                     \/ Len(sig) = 10 /\ RefDigitsLeq(sig, limit)
    IN  [valid |-> valid,
         value |-> IF valid THEN RefSum(sig, IF neg THEN -1 ELSE 1) ELSE 0]

RECURSIVE RefDigitsOfNeg(_)
\* the decimal digits of -n for n <= 0
RefDigitsOfNeg(n) ==
    IF n > -10 THEN <<CHOOSE c \in DOMAIN RefDigits : RefDigits[c] = -n>>
    ELSE LET r == (10 - (n % 10)) % 10
         IN  RefDigitsOfNeg((n + r) \div 10)
             \o <<CHOOSE c \in DOMAIN RefDigits : RefDigits[c] = r>>

\* the decimal text of v: "0", digits, or '-' and digits
RefDecimal(v) ==
    IF v < 0 THEN <<"-">> \o RefDigitsOfNeg(v) ELSE RefDigitsOfNeg(-v)

RECURSIVE RefJoin(_)
\* v1,v2,...,vn without spaces
RefJoin(seq) ==
    IF Len(seq) = 1 THEN RefDecimal(seq[1])
    ELSE RefDecimal(seq[1]) \o <<",">> \o RefJoin(Tail(seq))

\* the text of an integer sequence: "[]" or "[v1,v2,...]"
RefVectorText(seq) ==
    IF seq = <<>> THEN <<"[", "]">> ELSE <<"[">> \o RefJoin(seq) \o <<"]">>

---------------------------------------------------------------------------
(* Tables: AbstractTableAdapter<T> and TableAdapter<T>.                    *)
(*                                                                         *)
(* The record type T has the members 1..MaxCols, int and std::string in    *)
(* turn, as BasicProblem has.  A ColumnSpec is [name, member, kind,        *)
(* defaultValue]: the registered name and the FieldAdapter's member        *)
(* pointer, scalar kind and default.  Rows and columns are counted from 0  *)
(* as in the source; sequences are indexed from 1.                         *)

Members == 1..MaxCols

MemberKind(m) == IF m % 2 = 1 THEN "int" ELSE "string"

\* T{}: the record data.emplace_back() creates
ValueInitRecord == [m \in Members |-> ValueInit(MemberKind(m))]

\* StringToLowerCase leaving the string as it is
StringToLowerCase_Identity(s) == s

StringToLowerCase(s) == [i \in 1..Len(s) |-> tf_tolower(s[i])]

ColumnCount == Len(columnSpecs)

\* TableAdapter::RowCount
RowCount == Len(data)

\* AbstractTableAdapter::GetColumnByName: the return value and col, which
\* the callers initialise to 0
GetColumnByName(key) ==
    LET s == StringToLowerCase(key)
    IN  IF s \notin DOMAIN name2id THEN [ok |-> FALSE, col |-> 0]
        ELSE [ok |-> TRUE, col |-> name2id[s]]

\* FieldAdapter::SetDefaultValue
SetDefaultValue(spec, rec) == [rec EXCEPT ![spec.member] = spec.defaultValue]

RECURSIVE SetDefaultValuesFrom(_, _)
\* the loop of SetDefaultValues over the column specs, in order
SetDefaultValuesFrom(specs, rec) ==
    IF specs = <<>> THEN rec
    ELSE SetDefaultValuesFrom(Tail(specs), SetDefaultValue(Head(specs), rec))

\* SetDefaultValues leaving the row as emplace_back created it
SetDefaultValues_None(records, row) == records

\* AbstractTableAdapter::SetDefaultValues(row): the records after the call
SetDefaultValues(records, row) ==
    [records EXCEPT ![row + 1] = SetDefaultValuesFrom(columnSpecs, @)]

\* AbstractTableAdapter::EqualsDefaultValue(row, col)
EqualsDefaultValue(row, col) ==
    data[row + 1][columnSpecs[col + 1].member] = columnSpecs[col + 1].defaultValue

\* the names, defaults and texts the callers of a table use
TableNames ==
    {<<>>, <<"i","d">>, <<"I","d">>, <<"I","D">>, <<"m","s","g">>, <<"M","s","g">>}

Defaults(k) ==
    CASE k = "int"    -> {-1, 7}
      [] k = "string" -> {<<>>, <<"a">>}

TableTexts == {<<"4","2">>}

InitTable ==
    /\ columnSpecs = <<>>
    /\ name2id = [key \in {} |-> 0]
    /\ data = <<>>
    /\ call = [op |-> "none"]
    /\ kind = "int"
    /\ field = 0
    /\ out = <<>>
    /\ text = <<>>
    /\ ret = TRUE
    /\ before = 0
    /\ outBefore = <<>>
    /\ parsedBack = 0
    /\ pc = "table"
    /\ ParserIdle
    /\ WriterIdle
    /\ RunnerIdle
    /\ AlgIdle

\* AddNamedColumn(name, std::make_shared<FieldAdapter<T, C>>(&T::m, def)).
\* As every AddColumn call of the repository does, the call binds a member
\* no earlier column binds (the next one of T), before the first row exists.
AddNamedColumn(name, def) ==
    /\ pc = "table"
    /\ data = <<>>
    /\ LET key == StringToLowerCase(name)
           m   == Len(columnSpecs) + 1
       IN  IF key \in DOMAIN name2id
           THEN /\ call' = [op |-> "AddNamedColumn", name |-> name, ok |-> FALSE]
                /\ UNCHANGED <<columnSpecs, name2id>>
           ELSE /\ Len(columnSpecs) < MaxCols
                /\ columnSpecs' = Append(columnSpecs,
                       [name |-> name, member |-> m, kind |-> MemberKind(m),
                        defaultValue |-> def])
                /\ name2id' = [k \in DOMAIN name2id \cup {key} |->
                                  IF k \in DOMAIN name2id THEN name2id[k]
                                  ELSE Len(columnSpecs)]
                /\ call' = [op |-> "AddNamedColumn", name |-> name, ok |-> TRUE]
    /\ UNCHANGED data
    /\ UNCHANGED <<codecVars, parserVars, writerVars, run, algVars>>

\* TableAdapter::NewRow(row)
NewRow ==
    /\ pc = "table"
    /\ Len(data) < MaxRows
    /\ data' = SetDefaultValues(Append(data, ValueInitRecord), Len(data))
    /\ call' = [op |-> "NewRow", ok |-> TRUE, row |-> Len(data)]
    /\ UNCHANGED <<columnSpecs, name2id>>
    /\ UNCHANGED <<codecVars, parserVars, writerVars, run, algVars>>

\* AbstractTableAdapter::SetValue(row, col, value), by index
SetValue(row, col, value) ==
    /\ pc = "table"
    /\ col < ColumnCount
    /\ row < RowCount
    /\ LET spec == columnSpecs[col + 1]
           p    == FromString(spec.kind, data[row + 1][spec.member], value)
       IN  /\ data' = [data EXCEPT ![row + 1][spec.member] = p.result]
           /\ call' = [op |-> "SetValue", ok |-> p.ok]
    /\ UNCHANGED <<columnSpecs, name2id>>
    /\ UNCHANGED <<codecVars, parserVars, writerVars, run, algVars>>

NextTable ==
    \/ \E name \in TableNames, def \in Defaults(MemberKind(ColumnCount + 1)) :
          AddNamedColumn(name, def)
    \/ NewRow
    \/ \E row \in 0..(MaxRows - 1), col \in 0..(MaxCols - 1), value \in TableTexts :
          SetValue(row, col, value)

SpecTable == InitTable /\ [][NextTable]_vars

---------------------------------------------------------------------------
(* More reference definitions: the elements of a bracketed sequence text   *)
(* and equality of names up to letter case.                                *)

RECURSIVE RefTokens(_)
\* the pieces of s between its commas, empty pieces included
RefTokens(s) ==
    IF \A i \in 1..Len(s) : s[i] # ","
    THEN <<s>>
    ELSE LET pos == CHOOSE i \in 1..Len(s) :
                        s[i] = "," /\ \A j \in 1..(i - 1) : s[j] # ","
         IN  <<SubSeq(s, 1, pos - 1)>> \o RefTokens(SubSeq(s, pos + 1, Len(s)))

\* the text between the brackets of t, trimmed; t is "[" ... "]" when trimmed
RefInner(t) == LET s == RefTrim(t) IN RefTrim(SubSeq(s, 2, Len(s) - 1))

\* t is a bracket pair whose comma-separated elements are all integers
RefIsVectorText(t) ==
    LET s == RefTrim(t)
    IN  /\ Len(s) >= 2
        /\ s[1] = "["
        /\ s[Len(s)] = "]"
        /\ \/ RefInner(t) = <<>>
           \/ \A i \in 1..Len(RefTokens(RefInner(t))) :
                 RefInt(RefTokens(RefInner(t))[i]).valid

\* a and b are equal after case folding
RefSameName(a, b) ==
    /\ Len(a) = Len(b)
    /\ \A i \in 1..Len(a) :
          a[i] = b[i] \/ tf_toupper(a[i]) = b[i] \/ a[i] = tf_toupper(b[i])

---------------------------------------------------------------------------
(* Adapters as values.  The parser and the writer work on two tables at    *)
(* once, so the operations of AbstractTableAdapter are written here over   *)
(* an adapter value [columnSpecs, name2id] and the list of records behind  *)
(* it.  An operation that fails an assert reports asserted = TRUE and      *)
(* changes nothing: the process aborts there.  Rows and columns are        *)
(* size_t: an index computed below 0 wraps above every count.              *)

EmptyAdapter == [columnSpecs |-> <<>>, name2id |-> [key \in {} |-> 0]]

\* AbstractTableAdapter::AddNamedColumn on an adapter value: the adapter
\* after the call
AddColumn(adapter, name, member, k, def) ==
    LET key == StringToLowerCase(name)
    IN  IF key \in DOMAIN adapter.name2id THEN adapter
        ELSE [columnSpecs |-> Append(adapter.columnSpecs,
                  [name |-> name, member |-> member, kind |-> k,
                   defaultValue |-> def]),
              name2id |-> [n \in DOMAIN adapter.name2id \cup {key} |->
                  IF n \in DOMAIN adapter.name2id THEN adapter.name2id[n]
                  ELSE Len(adapter.columnSpecs)]]

\* GetColumnByName comparing the key as it is written
GetColumnByNameIn_AsWritten(adapter, key) ==
    IF key \notin DOMAIN adapter.name2id THEN [ok |-> FALSE, col |-> 0]
    ELSE [ok |-> TRUE, col |-> adapter.name2id[key]]

\* AbstractTableAdapter::GetColumnByName of an adapter value
GetColumnByNameIn(adapter, key) ==
    LET s == StringToLowerCase(key)
    IN  IF s \notin DOMAIN adapter.name2id THEN [ok |-> FALSE, col |-> 0]
        ELSE [ok |-> TRUE, col |-> adapter.name2id[s]]

\* StoreField writing the member of every record
StoreField_EveryRow(records, row, member, p) ==
    [ok |-> p.ok,
     records |-> [i \in 1..Len(records) |->
                     [records[i] EXCEPT ![member] = p.result]],
     asserted |-> FALSE]

\* the records and the return value once FromString of the member's adapter
\* gave p for the record of row
StoreField(records, row, member, p) ==
    [ok |-> p.ok,
     records |-> [records EXCEPT ![row + 1][member] = p.result],
     asserted |-> FALSE]

\* AbstractTableAdapter::SetValue(row, col, value), by index
SetValueAt(adapter, records, row, col, value) ==
    IF ~(col \in 0..(Len(adapter.columnSpecs) - 1) /\ row \in 0..(Len(records) - 1))
    THEN [ok |-> FALSE, records |-> records, asserted |-> TRUE]
    ELSE StoreField(records, row, adapter.columnSpecs[col + 1].member,
                    FromString(adapter.columnSpecs[col + 1].kind,
                               records[row + 1][adapter.columnSpecs[col + 1].member],
                               value))

\* AbstractTableAdapter::GetValue(row, col, value), by index: value is the
\* caller's string after the call
GetValueAt(adapter, records, row, col, value) ==
    IF ~(col \in 0..(Len(adapter.columnSpecs) - 1) /\ row \in 0..(Len(records) - 1))
    THEN [ok |-> FALSE, value |-> value, asserted |-> TRUE]
    ELSE LET spec == adapter.columnSpecs[col + 1]
         IN  [ok |-> TRUE,
              value |-> ToString(spec.kind, records[row + 1][spec.member], value),
              asserted |-> FALSE]

\* ITable::SetValue(row, key, value), by name
SetValueByName(adapter, records, row, key, value) ==
    LET g == GetColumnByNameIn(adapter, key)
    IN  IF ~g.ok THEN [ok |-> FALSE, records |-> records, asserted |-> FALSE]
        ELSE SetValueAt(adapter, records, row, g.col, value)

\* ITable::GetValue(row, key, value), by name
GetValueByName(adapter, records, row, key, value) ==
    LET g == GetColumnByNameIn(adapter, key)
    IN  IF ~g.ok THEN [ok |-> FALSE, value |-> value, asserted |-> FALSE]
        ELSE GetValueAt(adapter, records, row, g.col, value)

\* AbstractTableAdapter::EqualsDefaultValue(row, col) of an adapter value
EqualsDefaultValueAt(adapter, records, row, col) ==
    LET spec == adapter.columnSpecs[col + 1]
    IN  records[row + 1][spec.member] = spec.defaultValue

\* NewRow starting the list afresh with the row it makes
NewRowIn_Replacing(adapter, records, fresh) ==
    <<SetDefaultValuesFrom(adapter.columnSpecs, fresh)>>

\* TableAdapter::NewRow on a list of records whose value-initialised
\* record is fresh: the list after the call
NewRowIn(adapter, records, fresh) ==
    [i \in 1..(Len(records) + 1) |->
        IF i <= Len(records) THEN records[i]
        ELSE SetDefaultValuesFrom(adapter.columnSpecs, fresh)]

---------------------------------------------------------------------------
(* The problem-set header: a ProblemSetHeader behind a RecordAdapter with  *)
(* the columns of AddDefaultProblemSetColumns.                             *)

\* AddDefaultProblemSetColumns(table)
AddDefaultProblemSetColumns(adapter) ==
    AddColumn(AddColumn(AddColumn(AddColumn(adapter,
        <<"p", "r", "o", "b", "l", "e", "m", "_", "s", "e", "t", "_", "n", "u", "m", "b", "e", "r">>, "id", "int", -1),
        <<"p", "r", "o", "b", "l", "e", "m", "s">>, "problem_count", "int", -1),
        <<"t", "i", "m", "e">>, "time", "int", -1),
        <<"t", "e", "s", "t", "_", "m", "i", "s", "t", "a", "k", "e", "s">>, "test_mistakes", "int", -1)

\* RecordAdapter<ProblemSetHeader> headerTable(header) with its columns
HeaderTable == AddDefaultProblemSetColumns(EmptyAdapter)

\* RecordAdapter::NewRow creating a row as a TableAdapter does
RecordNewRow_Resets(rec) ==
    [ok |-> TRUE, rec |-> SetDefaultValuesFrom(HeaderTable.columnSpecs, rec)]

\* RecordAdapter::NewRow(row): the return value and the record after it
RecordNewRow(rec) == [ok |-> FALSE, rec |-> rec]

\* RecordAdapter::RowCount
RecordRowCount == 1

\* the list of records GetRecord of a RecordAdapter indexes
RecordRows(rec) == [i \in 1..RecordRowCount |-> rec]

\* the texts and keys the callers of the header table use
HeaderTexts == {<<"4", "2">>, <<"x">>}

HeaderKeys ==
    {<<"p", "r", "o", "b", "l", "e", "m", "s">>,
     <<"P", "R", "O", "B", "L", "E", "M", "S">>,
     <<"T", "i", "m", "e">>,
     <<"p", "r", "o", "b", "l", "e", "m">>,
     <<>>}

InitRecord ==
    /\ pc = "record"
    /\ header = ProblemSetHeader
    /\ call = [op |-> "none", asserted |-> FALSE]
    /\ out = <<>>
    /\ kind = "int"
    /\ field = 0
    /\ text = <<>>
    /\ ret = TRUE
    /\ before = 0
    /\ outBefore = <<>>
    /\ parsedBack = 0
    /\ columnSpecs = HeaderTable.columnSpecs
    /\ name2id = HeaderTable.name2id
    /\ data = <<>>
    /\ isHeaderSection = TRUE
    /\ isOK = TRUE
    /\ lineNumber = 0
    /\ throwOnError = FALSE
    /\ currentFile = ""
    /\ raised = [type |-> "none"]
    /\ parse = "idle"
    /\ line = <<>>
    /\ consumed = 0
    /\ WriterIdle
    /\ RunnerIdle
    /\ AlgIdle

\* what no operation of the header table changes
RecordFrame ==
    UNCHANGED <<kind, field, text, ret, before, outBefore, parsedBack, pc,
                columnSpecs, name2id, data, isHeaderSection, isOK, lineNumber,
                throwOnError, currentFile, raised, parse, line, consumed,
                stream, reparsed, run, algVars>>

\* headerTable.NewRow(row)
CallRecordNewRow ==
    /\ pc = "record"
    /\ ~call.asserted
    /\ LET r == RecordNewRow(header)
       IN  /\ header' = r.rec
           /\ call' = [op |-> "NewRow", ok |-> r.ok, asserted |-> FALSE,
                       rowCount |-> Len(RecordRows(r.rec))]
    /\ UNCHANGED out
    /\ RecordFrame

\* headerTable.SetValue(row, col, value) within the bounds the caller owes
CallRecordSetValue(row, col, value) ==
    /\ pc = "record"
    /\ ~call.asserted
    /\ col < Len(columnSpecs)
    /\ row < RecordRowCount
    /\ LET r == SetValueAt(HeaderTable, RecordRows(header), row, col, value)
       IN  /\ header' = r.records[1]
           /\ call' = [op |-> "SetValue", ok |-> r.ok, asserted |-> r.asserted]
    /\ UNCHANGED out
    /\ RecordFrame

\* headerTable.GetValue(row, col, out) within the bounds the caller owes
CallRecordGetValue(row, col) ==
    /\ pc = "record"
    /\ ~call.asserted
    /\ col < Len(columnSpecs)
    /\ row < RecordRowCount
    /\ LET r == GetValueAt(HeaderTable, RecordRows(header), row, col, out)
       IN  /\ out' = r.value
           /\ call' = [op |-> "GetValue", ok |-> r.ok, asserted |-> r.asserted]
    /\ UNCHANGED header
    /\ RecordFrame

\* headerTable.SetValue(row, key, value): any key, any row
CallRecordSetValueByName(row, key, value) ==
    /\ pc = "record"
    /\ ~call.asserted
    /\ LET r == SetValueByName(HeaderTable, RecordRows(header), row, key, value)
       IN  /\ header' = r.records[1]
           /\ call' = [op |-> "SetValueByName", ok |-> r.ok,
                       asserted |-> r.asserted, row |-> row, key |-> key,
                       value |-> value]
    /\ UNCHANGED out
    /\ RecordFrame

\* headerTable.GetValue(row, key, out): any key, any row
CallRecordGetValueByName(row, key) ==
    /\ pc = "record"
    /\ ~call.asserted
    /\ LET r == GetValueByName(HeaderTable, RecordRows(header), row, key, out)
       IN  /\ out' = r.value
           /\ call' = [op |-> "GetValueByName", ok |-> r.ok,
                       asserted |-> r.asserted, row |-> row, key |-> key]
    /\ UNCHANGED header
    /\ RecordFrame

NextRecord ==
    \/ CallRecordNewRow
    \/ \E row \in 0..1, col \in 0..3, value \in HeaderTexts :
          CallRecordSetValue(row, col, value)
    \/ \E row \in 0..1, col \in 0..3 : CallRecordGetValue(row, col)
    \/ \E row \in 0..1, key \in HeaderKeys, value \in HeaderTexts :
          CallRecordSetValueByName(row, key, value)
    \/ \E row \in 0..1, key \in HeaderKeys : CallRecordGetValueByName(row, key)

SpecRecord == InitRecord /\ [][NextRecord]_vars

---------------------------------------------------------------------------
(* The problem table: BasicProblem records behind a TableAdapter with the  *)
(* columns of AddDefaultProblemColumns.                                    *)

\* T{} of struct BasicProblem
BasicProblem ==
    [id |-> 0, correct_answer |-> 0, student_answer |-> 0, helpMsg |-> <<>>]

\* AddDefaultProblemColumns(table)
AddDefaultProblemColumns(adapter) ==
    AddColumn(AddColumn(AddColumn(adapter,
        <<"p", "r", "o", "b", "l", "e", "m">>, "id", "int", -1),
        <<"c", "o", "r", "r", "e", "c", "t", "_", "a", "n", "s", "w", "e", "r">>, "correct_answer", "int", -1),
        <<"m", "s", "g">>, "helpMsg", "string", <<>>)

\* TableAdapter<BasicProblem> prAdapter(problems) with its columns
ProblemTable == AddDefaultProblemColumns(EmptyAdapter)

---------------------------------------------------------------------------
(* BasicYamlParser over the header table and the problem table.  The state *)
(* ParseLine works on is [isOK, isHeaderSection, header, data, thrown]:    *)
(* thrown names the exception that leaves ParseLine, "none" when it        *)
(* returns, "abort" when an assert fails.                                  *)

MaxLines == 3    \* most lines of one input file

\* CheckCondition raising in lenient mode too
Failed_AlwaysThrows(st, strict) ==
    [st EXCEPT !.isOK = FALSE, !.thrown = "ParseError"]

\* AbstractLineParser::CheckCondition(false, error)
Failed(st, strict) ==
    [st EXCEPT !.isOK = FALSE,
               !.thrown = IF strict THEN "ParseError" ELSE "none"]

\* TestFramework::ThrowError(message)
ThrowError(st) == [st EXCEPT !.thrown = "TestFrameworkError"]

\* PreParse leaving the section of the previous parse
PreParse_Keeps(section) == section

\* PreParse starting the parse in the data section
PreParse_DataSection(section) == FALSE

\* BasicYamlParser::PreParse: isHeaderSection after it
PreParse(section) == TRUE

\* a record line accepted in either section
DashAllowed_Always(section) == TRUE

\* the condition CheckCondition tests on a line that starts with '-'
DashAllowed(section) == ~section

\* a key/value line accepted without a row
HasActiveRow_Always(n) == TRUE

\* the condition CheckCondition tests on a key/value line of the data section
HasActiveRow(n) == n > 0

\* PairStored taking the last row away again when SetValue failed
PairStored_RollsBack(st, inHeader, r) ==
    IF r.asserted THEN [st EXCEPT !.thrown = "abort"]
    ELSE IF ~r.ok
    THEN ThrowError([st EXCEPT !.data = IF inHeader THEN @
                                       ELSE SubSeq(@, 1, Len(@) - 1)])
    ELSE IF inHeader THEN [st EXCEPT !.header = r.records[1]]
    ELSE [st EXCEPT !.data = r.records]

\* the end of ParseLine once SetValue of the section's table gave r: st
\* with the section's records as SetValue left them
PairStored(st, inHeader, r) ==
    LET after == IF inHeader THEN [st EXCEPT !.header = r.records[1]]
                 ELSE [st EXCEPT !.data = r.records]
    IN  IF r.asserted THEN [after EXCEPT !.thrown = "abort"]
        ELSE IF ~r.ok THEN ThrowError(after)
        ELSE after

\* the key/value part of ParseLine, from StringSegment key(s) on
ParseKeyValue(s0, st, strict) ==
    LET sp  == Split(s0, ":")
        s   == Trim(sp.view)
        key == Trim(sp.prefix)
    IN  IF ~(~IsEmpty(s) /\ ~IsEmpty(key)) THEN Failed(st, strict)
        ELSE IF ~st.isHeaderSection /\ ~HasActiveRow(Len(st.data))
        THEN Failed(st, strict)
        ELSE PairStored(st, st.isHeaderSection,
                 IF st.isHeaderSection
                 THEN SetValueByName(HeaderTable, RecordRows(st.header), 0, key, s)
                 ELSE SetValueByName(ProblemTable, st.data, Len(st.data) - 1,
                                     key, s))

\* BasicYamlParser::ParseLine(s); pTable and pHeader are the two tables the
\* parser was constructed with
ParseLine(s0, st, strict) ==
    LET s    == Trim(s0)
        dash == FirstChar(s) = "-"
        rest == Trim(RemovePrefix(s, 1))
        appended ==
            [st EXCEPT !.data = NewRowIn(ProblemTable, @, BasicProblem)]
    IN  IF IsEmpty(s) THEN st
        ELSE IF FirstChar(s) = "#" THEN st
        ELSE IF Match(s, <<"d", "a", "t", "a", ":">>)
        THEN [st EXCEPT !.isHeaderSection = FALSE]
        ELSE IF dash /\ ~DashAllowed(st.isHeaderSection) THEN Failed(st, strict)
        ELSE IF dash /\ IsEmpty(rest) THEN appended
        ELSE ParseKeyValue(IF dash THEN rest ELSE s,
                           IF dash THEN appended ELSE st, strict)

\* the files a caller names; std::ifstream opens all but one of them
FileNames == {"in.yaml", "missing.yaml"}

Opens(filename) == filename # "missing.yaml"

\* ++lineNumber counting only the lines that hold something
CountLine_SkipsBlank(n, l) == IF Trim(l) = <<>> THEN n ELSE n + 1

\* ++lineNumber for the line std::getline read
CountLine(n, l) == n + 1

\* the lines of the input files
InputLines ==
    {<<>>,
     <<"#", " ", "c">>,
     <<" ", "d", "a", "t", "a", ":", "\r">>,
     <<"-">>,
     <<" ", "-", " ", "p", "r", "o", "b", "l", "e", "m", ":", " ", "1">>,
     <<"p", "r", "o", "b", "l", "e", "m", ":", " ", "1">>,
     <<"p", "r", "o", "b", "l", "e", "m", ":", " ", "x">>,
     <<"p", "r", "o", "b", "l", "e", "m", "s", ":", " ", "2">>,
     <<"P", "r", "o", "b", "l", "e", "m", "s", ":", " ", "x">>,
     <<"p", "r", "o", "b", "l", "e", "m", "s", ":">>,
     <<"p", "r", "o", "b", "l", "e", "m", " ", "1">>,
     <<":", " ", "1">>,
     <<"m", "s", "g", ":", " ", "\"", ":", "\"">>,
     <<"-", " ", "p", "r", "o", "b", "l", "e", "m", ":", " ", "x">>,
     <<"-", " ", "x">>}

InitParser ==
    /\ header = ProblemSetHeader
    /\ data = <<>>
    /\ columnSpecs = ProblemTable.columnSpecs
    /\ name2id = ProblemTable.name2id
    /\ call = [op |-> "none"]
    /\ isHeaderSection = TRUE
    /\ isOK = TRUE
    /\ lineNumber = 0
    /\ throwOnError = FALSE
    /\ currentFile = ""
    /\ raised = [type |-> "none"]
    /\ parse = "idle"
    /\ line = <<>>
    /\ consumed = 0
    /\ pc = "parser"
    /\ kind = "int"
    /\ field = 0
    /\ out = <<>>
    /\ text = <<>>
    /\ ret = TRUE
    /\ before = 0
    /\ outBefore = <<>>
    /\ parsedBack = 0
    /\ WriterIdle
    /\ RunnerIdle
    /\ AlgIdle

\* what no step of the parser changes
ParserFrame ==
    UNCHANGED <<kind, field, out, text, ret, before, outBefore, parsedBack, pc,
                columnSpecs, name2id, stream, reparsed, run, algVars>>

\* the first character of the trimmed line is '-'
IsDashLine(l) == ~IsEmpty(Trim(l)) /\ FirstChar(Trim(l)) = "-"

\* parser.ParseFile(filename, shouldThrowOnError) up to its first getline;
\* call keeps the row count the caller's list had and counts the '-' lines
\* of the file
ParseFile(filename, shouldThrowOnError) ==
    /\ pc = "parser"
    /\ parse \in {"idle", "returned", "raised"}
    /\ call' = [op |-> "ParseFile", rows |-> Len(data), dashes |-> 0]
    /\ throwOnError' = shouldThrowOnError
    /\ lineNumber' = 0
    /\ currentFile' = filename
    /\ consumed' = 0
    /\ line' = <<>>
    /\ LET st == [isOK |-> TRUE, isHeaderSection |-> isHeaderSection,
                  header |-> header, data |-> data, thrown |-> "none"]
           opened == IF Opens(filename) THEN st
                     ELSE Failed(st, shouldThrowOnError)
       IN  /\ isOK' = opened.isOK
           /\ IF opened.thrown # "none"
              THEN /\ raised' = [type |-> opened.thrown, file |-> filename,
                                 line |-> 0]
                   /\ parse' = "raised"
                   /\ UNCHANGED isHeaderSection
              ELSE IF ~opened.isOK
              THEN /\ raised' = [type |-> "none"]
                   /\ parse' = "returned"
                   /\ UNCHANGED isHeaderSection
              ELSE /\ raised' = [type |-> "none"]
                   /\ parse' = "reading"
                   /\ isHeaderSection' = PreParse(isHeaderSection)
    /\ UNCHANGED <<header, data>>
    /\ ParserFrame

\* the rest of a turn of the loop of ParseFile once ParseLine ended as r:
\* the catch block and the test of IsOK().  A line is read only while the
\* list has room for the row it appends.
LineParsed(r) ==
    /\ Len(r.data) <= MaxRows
    /\ header' = r.header
    /\ data' = r.data
    /\ isHeaderSection' = r.isHeaderSection
    /\ IF r.thrown = "abort"
       THEN /\ parse' = "aborted"
            /\ isOK' = r.isOK
            /\ UNCHANGED raised
       ELSE IF r.thrown # "none"
       THEN IF throwOnError
            THEN /\ raised' = [type |-> "ParseError", file |-> currentFile,
                               line |-> lineNumber']
                 /\ parse' = "raised"
                 /\ isOK' = r.isOK
            ELSE /\ isOK' = FALSE
                 /\ parse' = "returned"
                 /\ UNCHANGED raised
       ELSE /\ isOK' = r.isOK
            /\ parse' = IF r.isOK THEN "reading" ELSE "returned"
            /\ UNCHANGED raised

\* one turn of the loop of ParseFile: std::getline read l
GetLine(l) ==
    /\ pc = "parser"
    /\ parse = "reading"
    /\ consumed < MaxLines
    /\ consumed' = consumed + 1
    /\ line' = l
    /\ lineNumber' = CountLine(lineNumber, l)
    /\ call' = [call EXCEPT !.dashes = IF IsDashLine(l) THEN @ + 1 ELSE @]
    /\ LineParsed(ParseLine(l, [isOK |-> isOK,
                                isHeaderSection |-> isHeaderSection,
                                header |-> header, data |-> data,
                                thrown |-> "none"], throwOnError))
    /\ UNCHANGED <<throwOnError, currentFile>>
    /\ ParserFrame

\* std::getline found the end of the file: PostParse, then ParseFile returns
EndOfFile ==
    /\ pc = "parser"
    /\ parse = "reading"
    /\ parse' = "returned"
    /\ UNCHANGED <<header, data, isHeaderSection, isOK, lineNumber, throwOnError,
                   currentFile, raised, line, consumed, call>>
    /\ ParserFrame

NextParser ==
    \/ \E filename \in FileNames, shouldThrowOnError \in BOOLEAN :
          ParseFile(filename, shouldThrowOnError)
    \/ \E l \in InputLines : GetLine(l)
    \/ EndOfFile

SpecParser == InitParser /\ [][NextParser]_vars

---------------------------------------------------------------------------
(* Reference reading of one input line, written without the operators of   *)
(* StringSegment, the adapters or the parser.                              *)

RefIsBlank(l) == RefTrim(l) = <<>>

RefIsComment(l) == ~RefIsBlank(l) /\ RefTrim(l)[1] = "#"

\* the line is the section marker, in any letter case
RefIsMarker(l) == RefSameName(RefTrim(l), <<"d", "a", "t", "a", ":">>)

\* the first non-blank character of the line is '-'
RefIsDash(l) == ~RefIsBlank(l) /\ ~RefIsMarker(l) /\ RefTrim(l)[1] = "-"

\* the line without its leading '-', trimmed
RefBody(l) ==
    IF RefIsDash(l) THEN RefTrim(SubSeq(RefTrim(l), 2, Len(RefTrim(l))))
    ELSE RefTrim(l)

\* the line, or its remainder after a leading '-', is to be read as a pair
RefIsKeyValue(l) ==
    /\ ~RefIsBlank(l)
    /\ ~RefIsComment(l)
    /\ ~RefIsMarker(l)
    /\ RefBody(l) # <<>>

\* the positions of ':' in t
RefColons(t) == {i \in 1..Len(t) : t[i] = ":"}

\* the trimmed text before the first ':' of t, all of t when it has none
RefKey(t) ==
    IF RefColons(t) = {} THEN RefTrim(t)
    ELSE RefTrim(SubSeq(t, 1, (CHOOSE i \in RefColons(t) :
                                  \A j \in RefColons(t) : i <= j) - 1))

\* the trimmed text after the first ':' of t, empty when it has none
RefValue(t) ==
    IF RefColons(t) = {} THEN <<>>
    ELSE RefTrim(SubSeq(t, (CHOOSE i \in RefColons(t) :
                               \A j \in RefColons(t) : i <= j) + 1, Len(t)))

\* the registered columns of specs whose name is key up to letter case
RefColumns(specs, key) ==
    {c \in 1..Len(specs) : RefSameName(specs[c].name, key)}

\* v is a text of kind k
RefValueOk(k, v) ==
    CASE k = "int"    -> RefInt(v).valid
      [] k = "string" -> Len(v) >= 2 /\ v[1] = "\"" /\ v[Len(v)] = "\""

\* the pair t names no column of specs, or a value its column cannot take
RefPairRejected(specs, t) ==
    \E k \in {RefKey(t)}, v \in {RefValue(t)} :
        \/ RefColumns(specs, k) = {}
        \/ \E c \in RefColumns(specs, k) : ~RefValueOk(specs[c].kind, v)

\* the pair t fails in the section given, with rows rows in the data table
RefPairFails(t, inHeader, rows) ==
    \E b \in {t} :
        \/ RefKey(b) = <<>>
        \/ RefValue(b) = <<>>
        \/ IF inHeader THEN RefPairRejected(HeaderTable.columnSpecs, b)
           ELSE rows = 0 \/ RefPairRejected(ProblemTable.columnSpecs, b)

\* the line l fails in the section given, with rows rows in the data table
RefLineFails(l, inHeader, rows) ==
    IF RefIsBlank(l) \/ RefIsComment(l) \/ RefIsMarker(l) THEN FALSE
    ELSE IF RefIsDash(l)
    THEN inHeader \/ (RefBody(l) # <<>> /\ RefPairFails(RefBody(l), FALSE, rows + 1))
    ELSE RefPairFails(RefBody(l), inHeader, rows)

---------------------------------------------------------------------------
(* The writer, and ParseFile as one operation.  A stream is the text       *)
(* written to it; std::getline cuts it into lines at every "\n".           *)

\* a key and its value written with a blank only
NameValueSeparator_Blank == <<" ">>

\* the ": " WriteRecordToStream puts between a column name and its value
NameValueSeparator == <<":", " ">>

RECURSIVE WriteColumns(_, _, _, _, _, _, _)
\* the loop of WriteRecordToStream from column j on: the stream after it
WriteColumns(o, adapter, records, row, writeDefaultValues, indent, j) ==
    IF j >= Len(adapter.columnSpecs) THEN o
    ELSE LET dashed == IF indent /\ j = 0 THEN o \o <<" ", "-", " ">> ELSE o
             value  == GetValueAt(adapter, records, row, j, <<>>).value
             after  ==
                 IF writeDefaultValues
                    \/ ~EqualsDefaultValueAt(adapter, records, row, j)
                 THEN (IF indent /\ j # 0 THEN dashed \o <<" ", " ", " ">> ELSE dashed)
                      \o adapter.columnSpecs[j + 1].name \o NameValueSeparator
                      \o value \o <<"\n">>
                 ELSE dashed
         IN  WriteColumns(after, adapter, records, row, writeDefaultValues,
                          indent, j + 1)

\* WriteRecordToStream(out, table, row, writeDefaultValues, indent)
WriteRecordToStream(o, adapter, records, row, writeDefaultValues, indent) ==
    WriteColumns(IF indent THEN o \o <<"\n">> ELSE o, adapter, records, row,
                 writeDefaultValues, indent, 0)

RECURSIVE WriteRows(_, _, _, _, _)
\* the loop of WriteTableToStream from row i on
WriteRows(o, adapter, records, writeDefaultValues, i) ==
    IF i >= Len(records) THEN o
    ELSE WriteRows(WriteRecordToStream(o, adapter, records, i,
                                       writeDefaultValues, TRUE),
                   adapter, records, writeDefaultValues, i + 1)

\* WriteTableToStream(out, header, table, writeDefaultValues) with the
\* header table and the problem table
WriteTableToStream(o, rec, records, writeDefaultValues) ==
    WriteRows(WriteRecordToStream(o, HeaderTable, RecordRows(rec), 0,
                                  writeDefaultValues, FALSE)
                  \o <<"\n">> \o <<"d", "a", "t", "a", ":">> \o <<"\n">>,
              ProblemTable, records, writeDefaultValues, 0)

RECURSIVE GetLines(_)
\* the lines std::getline reads from a stream that holds t
GetLines(t) ==
    IF t = <<>> THEN <<>>
    ELSE IF \A i \in 1..Len(t) : t[i] # "\n" THEN <<t>>
    ELSE LET pos == CHOOSE i \in 1..Len(t) :
                        t[i] = "\n" /\ \A j \in 1..(i - 1) : t[j] # "\n"
         IN  <<SubSeq(t, 1, pos - 1)>> \o GetLines(SubSeq(t, pos + 1, Len(t)))

RECURSIVE ParseLines(_, _, _)
RECURSIVE LinesParsed(_, _, _)
\* the rest of the loop of ParseFile once ParseLine ended as r on the line
\* before lines: the catch block, the test of IsOK() and the next turns
LinesParsed(lines, r, strict) ==
    IF r.thrown = "abort" THEN r
    ELSE IF r.thrown # "none"
    THEN IF strict THEN [r EXCEPT !.thrown = "ParseError"]
         ELSE [r EXCEPT !.isOK = FALSE, !.thrown = "none"]
    ELSE IF ~r.isOK THEN r
    ELSE ParseLines(lines, r, strict)

\* the loop of ParseFile over the lines left: the parser state when
\* ParseFile ends, thrown naming what it raised
ParseLines(lines, st, strict) ==
    IF lines = <<>> THEN st
    ELSE LinesParsed(Tail(lines), ParseLine(Head(lines), st, strict), strict)

\* parser.ParseFile(filename, strict) on a file that opens and holds t, by a
\* parser bound to the record rec and the list records
ParseFileOf(t, rec, records, strict) ==
    ParseLines(GetLines(t),
               [isOK |-> TRUE, isHeaderSection |-> PreParse(FALSE),
                header |-> rec, data |-> records, thrown |-> "none"],
               strict)

\* the header records and problem records the callers write
SampleHeaders ==
    {ProblemSetHeader,
     [id |-> 7, problem_count |-> 2, test_mistakes |-> 0, time |-> 15],
     [id |-> 1005230, problem_count |-> -1, test_mistakes |-> -1, time |-> -1],
     [id |-> -1, problem_count |-> 1, test_mistakes |-> 3, time |-> IntMin]}

SampleProblems ==
    {[id |-> -1, correct_answer |-> -1, student_answer |-> 0, helpMsg |-> <<>>],
     [id |-> 1, correct_answer |-> 5, student_answer |-> 9, helpMsg |-> <<"a", ":", "b">>],
     [id |-> -1, correct_answer |-> 0, student_answer |-> 0, helpMsg |-> <<" ", "-", " ", "x", " ", "#">>],
     [id |-> IntMin, correct_answer |-> -1, student_answer |-> 0, helpMsg |-> <<"\"">>],
     [id |-> 2, correct_answer |-> -1, student_answer |-> 0, helpMsg |-> <<"d", "a", "t", "a", ":">>]}

SampleTables ==
    UNION {[1..n -> SampleProblems] : n \in 0..MaxRows}

InitWriter ==
    /\ header \in SampleHeaders
    /\ data \in SampleTables
    /\ stream = [written |-> FALSE]
    /\ reparsed = [done |-> FALSE]
    /\ pc = "writer"
    /\ columnSpecs = ProblemTable.columnSpecs
    /\ name2id = ProblemTable.name2id
    /\ call = [op |-> "none"]
    /\ kind = "int"
    /\ field = 0
    /\ out = <<>>
    /\ text = <<>>
    /\ ret = TRUE
    /\ before = 0
    /\ outBefore = <<>>
    /\ parsedBack = 0
    /\ isHeaderSection = TRUE
    /\ isOK = TRUE
    /\ lineNumber = 0
    /\ throwOnError = FALSE
    /\ currentFile = ""
    /\ raised = [type |-> "none"]
    /\ parse = "idle"
    /\ line = <<>>
    /\ consumed = 0
    /\ RunnerIdle
    /\ AlgIdle

\* WriteTableToStream(out, &headerTable, &problemTable, writeDefaultValues)
\* on an empty stream
CallWriteTableToStream(writeDefaultValues) ==
    /\ pc = "writer"
    /\ ~stream.written
    /\ stream' = [written |-> TRUE, writeDefaultValues |-> writeDefaultValues,
                  text |-> WriteTableToStream(<<>>, header, data,
                                              writeDefaultValues)]
    /\ UNCHANGED <<codecVars, tableVars, parserVars, reparsed, run, algVars>>

\* a BasicYamlParser bound to adapters with the same columns over a fresh
\* ProblemSetHeader and an empty list parses the stream
CallParseFileOfStream(strict) ==
    /\ pc = "writer"
    /\ stream.written
    /\ ~reparsed.done
    /\ reparsed' = [done |-> TRUE, strict |-> strict,
                     parser |-> ParseFileOf(stream.text, ProblemSetHeader,
                                            <<>>, strict)]
    /\ UNCHANGED <<codecVars, tableVars, parserVars, stream, run, algVars>>

NextWriter ==
    \/ \E writeDefaultValues \in BOOLEAN :
          CallWriteTableToStream(writeDefaultValues)
    \/ \E strict \in BOOLEAN : CallParseFileOfStream(strict)

SpecWriter == InitWriter /\ [][NextWriter]_vars

---------------------------------------------------------------------------
(* Reference reading of a written stream.                                  *)

RECURSIVE RefLines(_)
\* the pieces of t between its line breaks; a final break ends the last one
RefLines(t) ==
    LET breaks == {i \in 1..Len(t) : t[i] = "\n"}
    IN  IF t = <<>> THEN <<>>
        ELSE IF breaks = {} THEN <<t>>
        ELSE LET b == CHOOSE i \in breaks : \A j \in breaks : i <= j
             IN  <<SubSeq(t, 1, b - 1)>> \o RefLines(SubSeq(t, b + 1, Len(t)))

RECURSIVE RefKeysOf(_)
\* the keys of the pair lines among lines, in order
RefKeysOf(lines) ==
    IF lines = <<>> THEN <<>>
    ELSE (IF RefIsKeyValue(Head(lines)) THEN <<RefKey(RefBody(Head(lines)))>>
          ELSE <<>>) \o RefKeysOf(Tail(lines))

RECURSIVE RefNamesToWrite(_, _, _)
\* the names of the columns of specs, from column c on, whose field of rec
\* is to be written: all of them, or those that differ from the default
RefNamesToWrite(specs, rec, all) ==
    IF specs = <<>> THEN <<>>
    ELSE (IF all \/ rec[Head(specs).member] # Head(specs).defaultValue
          THEN <<Head(specs).name>> ELSE <<>>)
         \o RefNamesToWrite(Tail(specs), rec, all)

RECURSIVE RefRowNamesToWrite(_, _)
RefRowNamesToWrite(records, all) ==
    IF records = <<>> THEN <<>>
    ELSE RefNamesToWrite(ProblemTable.columnSpecs, Head(records), all)
         \o RefRowNamesToWrite(Tail(records), all)

\* the column-bound fields of a and b are equal
RefSameFields(specs, a, b) ==
    \A c \in 1..Len(specs) : a[specs[c].member] = b[specs[c].member]

\* the parse succeeded and gave back the header and the rows, in order
RefRestored ==
    /\ reparsed.parser.isOK
    /\ reparsed.parser.thrown = "none"
    /\ RefSameFields(HeaderTable.columnSpecs, reparsed.parser.header, header)
    /\ Len(reparsed.parser.data) = Len(data)
    /\ \A i \in 1..Len(data) :
          RefSameFields(ProblemTable.columnSpecs, reparsed.parser.data[i],
                        data[i])

---------------------------------------------------------------------------
(* The scheduler's main from the return of ParseFile on: it validates the  *)
(* parsed problem set and runs the algorithm on every problem.  run is     *)
(* [at, tStart, i]: the position of main, header.tStart and the loop       *)
(* index.  An exception that leaves main ends the process.                 *)

problem_set_id == 1005230

\* the loop of PreprocessProblemSet passing every row
IdsInOrderFrom_Unchecked(problems, i, count) == TRUE

RECURSIVE IdsInOrderFrom(_, _, _)
\* the loop of PreprocessProblemSet from index i on: no check of it throws
IdsInOrderFrom(problems, i, count) ==
    IF i >= count THEN TRUE
    ELSE IF ~(problems[i + 1].id = i + 1) THEN FALSE
    ELSE IdsInOrderFrom(problems, i + 1, count)

\* PreprocessProblemSet(id, problems, header): whether it throws, and
\* header.tStart after it
PreprocessProblemSet(id, problems, hdr, tStart) ==
    IF ~(hdr.id = id) THEN [thrown |-> TRUE, tStart |-> tStart]
    ELSE IF ~(hdr.problem_count = Len(problems))
    THEN [thrown |-> TRUE, tStart |-> tStart]
    ELSE IF ~IdsInOrderFrom(problems, 0, hdr.problem_count)
    THEN [thrown |-> TRUE, tStart |-> tStart]
    ELSE [thrown |-> FALSE, tStart |-> "now"]

\* the header records and problem lists a strict parse can leave to main,
\* and the answers the algorithm can give
ParsedHeaders ==
    {[ProblemSetHeader EXCEPT !.id = id, !.problem_count = count] :
        id \in {problem_set_id, 7}, count \in {-1} \cup (0..MaxRows)}

ParsedProblems ==
    {[BasicProblem EXCEPT !.id = id, !.correct_answer = 1] :
        id \in {-1} \cup (1..MaxRows)}

ParsedTables == UNION {[1..n -> ParsedProblems] : n \in 0..MaxRows}

Answers == {1, 2}

InitRunner ==
    /\ header \in ParsedHeaders
    /\ data \in ParsedTables
    /\ run = [at |-> "parsed", tStart |-> "epoch", i |-> 0]
    /\ pc = "runner"
    /\ columnSpecs = ProblemTable.columnSpecs
    /\ name2id = ProblemTable.name2id
    /\ call = [op |-> "none"]
    /\ kind = "int"
    /\ field = 0
    /\ out = <<>>
    /\ text = <<>>
    /\ ret = TRUE
    /\ before = 0
    /\ outBefore = <<>>
    /\ parsedBack = 0
    /\ isHeaderSection = FALSE
    /\ isOK = TRUE
    /\ lineNumber = 0
    /\ throwOnError = TRUE
    /\ currentFile = "in.yaml"
    /\ raised = [type |-> "none"]
    /\ parse = "returned"
    /\ line = <<>>
    /\ consumed = 0
    /\ WriterIdle
    /\ AlgIdle

\* PreprocessProblemSet(problem_set_id, problems, header) in main
CallPreprocessProblemSet ==
    /\ pc = "runner"
    /\ run.at = "parsed"
    /\ LET r == PreprocessProblemSet(problem_set_id, data, header, run.tStart)
       IN  run' = [at |-> IF r.thrown THEN "terminated" ELSE "solving",
                   tStart |-> r.tStart, i |-> 0]
    /\ UNCHANGED <<codecVars, tableVars, parserVars, writerVars, algVars>>

\* one turn of the loop of main: the algorithm runs on problems[i] and its
\* answer, whatever it is, is stored in the row
SolveProblem(answer) ==
    /\ pc = "runner"
    /\ run.at = "solving"
    /\ run.i < header.problem_count
    /\ data' = [data EXCEPT ![run.i + 1].student_answer = answer]
    /\ run' = [run EXCEPT !.i = run.i + 1]
    /\ UNCHANGED <<codecVars, columnSpecs, name2id, call, header,
                   isHeaderSection, isOK, lineNumber, throwOnError,
                   currentFile, raised, parse, line, consumed, writerVars, algVars>>

\* the loop of main ends
EndOfProblems ==
    /\ pc = "runner"
    /\ run.at = "solving"
    /\ ~(run.i < header.problem_count)
    /\ run' = [run EXCEPT !.at = "solved"]
    /\ UNCHANGED <<codecVars, tableVars, parserVars, writerVars, algVars>>

NextRunner ==
    \/ CallPreprocessProblemSet
    \/ \E answer \in Answers : SolveProblem(answer)
    \/ EndOfProblems

SpecRunner == InitRunner /\ [][NextRunner]_vars

\* the three conditions of a consistent problem set
RefConsistent ==
    /\ header.id = 1005230
    /\ header.problem_count = Len(data)
    /\ \A r \in 1..Len(data) : data[r].id = r

---------------------------------------------------------------------------
(* The algorithms.  Each is called on an argument drawn from a small set   *)
(* and runs one statement of its loop per step; the variables of the       *)
(* framework stay as constructed.                                          *)

\* the framework is not used while an algorithm runs
FrameworkIdle ==
    /\ kind = "int"
    /\ field = 0
    /\ out = <<>>
    /\ text = <<>>
    /\ ret = TRUE
    /\ before = 0
    /\ outBefore = <<>>
    /\ parsedBack = 0
    /\ TableIdle
    /\ ParserIdle
    /\ WriterIdle
    /\ RunnerIdle

FrameworkFrame ==
    UNCHANGED <<codecVars, tableVars, parserVars, writerVars, run>>

---------------------------------------------------------------------------
(* FindMaxSchedule: greedy interval scheduling.                            *)

MaxJobs == 3     \* most jobs of one collection

\* start and finish times of the jobs
Times == -1..2

\* struct Job with start <= finish, as FindMaxScheduleHelper hands them on
Job == {j \in [start : Times, finish : Times] : j.start <= j.finish}

JobLists == UNION {[1..n -> Job] : n \in 0..MaxJobs}

\* the orders std::sort may leave n jobs in
Permutations(n) ==
    {f \in [1..n -> 1..n] : \A a, b \in 1..n : a # b => f[a] # f[b]}

\* alg::sort_by<&Job::finish>: sorted is in ascending order of finish; the
\* order of jobs with equal finish is whatever std::sort leaves
sort_by(sorted) ==
    \A a, b \in 1..Len(sorted) : a < b => sorted[a].finish <= sorted[b].finish

\* int previousFinishTime = 0
InitialFinishTime == 0

InitScheduler ==
    /\ schedule \in {[at |-> "called", jobs |-> js, sortedJobs |-> <<>>,
                      i |-> 0, count |-> 0, previousFinishTime |-> 0,
                      result |-> 0] : js \in JobLists}
    /\ prize = [at |-> "none"]
    /\ indep = [at |-> "none"]
    /\ pc = "scheduler"
    /\ FrameworkIdle

\* the copy of jobs is sorted and the locals are initialised
SortJobs(order) ==
    /\ pc = "scheduler"
    /\ schedule.at = "called"
    /\ LET sorted == [k \in 1..Len(schedule.jobs) |-> schedule.jobs[order[k]]]
       IN  /\ sort_by(sorted)
           /\ schedule' = [schedule EXCEPT !.at = "loop",
                                           !.sortedJobs = sorted,
                                           !.i = 0,
                                           !.count = 0,
                                           !.previousFinishTime = InitialFinishTime]
    /\ UNCHANGED <<pc, prize, indep>>
    /\ FrameworkFrame

\* one turn of the loop over sortedJobs
ScheduleOrDiscard ==
    /\ pc = "scheduler"
    /\ schedule.at = "loop"
    /\ schedule.i < Len(schedule.sortedJobs)
    /\ LET j == schedule.sortedJobs[schedule.i + 1]
       IN  schedule' =
             IF j.start >= schedule.previousFinishTime
             THEN [schedule EXCEPT !.i = @ + 1, !.count = @ + 1,
                                   !.previousFinishTime = j.finish]
             ELSE [schedule EXCEPT !.i = @ + 1]
    /\ UNCHANGED <<pc, prize, indep>>
    /\ FrameworkFrame

\* return count
ReturnCount ==
    /\ pc = "scheduler"
    /\ schedule.at = "loop"
    /\ schedule.i = Len(schedule.sortedJobs)
    /\ schedule' = [schedule EXCEPT !.at = "returned", !.result = schedule.count]
    /\ UNCHANGED <<pc, prize, indep>>
    /\ FrameworkFrame

NextScheduler ==
    \/ \E order \in Permutations(Len(schedule.jobs)) : SortJobs(order)
    \/ ScheduleOrDiscard
    \/ ReturnCount

SpecScheduler == InitScheduler /\ [][NextScheduler]_vars

\* two jobs can run on one machine: one finishes no later than the other
\* starts
RefCompatible(a, b) == a.finish <= b.start \/ b.finish <= a.start

\* the sets of positions of js whose jobs can all run on one machine
RefSchedules(js) ==
    {S \in SUBSET (1..Len(js)) :
        \A a, b \in S : a # b => RefCompatible(js[a], js[b])}

\* the size of a largest schedule of js
RefMaxSchedule(js) ==
    CHOOSE m \in 0..Len(js) :
        /\ \E S \in RefSchedules(js) : Cardinality(S) = m
        /\ \A S \in RefSchedules(js) : Cardinality(S) <= m

---------------------------------------------------------------------------
(* FindMaxPrizeCollectingPath: the best path of the king.  prizeBoard is a *)
(* sequence of rows; row i, column j of the source is prizeBoard[i+1][j+1]. *)

MaxBoard == 2    \* largest side n of a board

\* the prizes on the squares
Prizes == {0, 1, 2}

Boards == UNION {[1..n -> [1..n -> Prizes]] : n \in 0..MaxBoard}

\* std::max keeping its first argument
max_First(a, b) == a

\* std::max
max(a, b) == IF a < b THEN b ELSE a

\* alg::create_table(rows, cols, value)
create_table(rows, cols, value) == [r \in 1..rows |-> [c \in 1..cols |-> value]]

InitPrize ==
    /\ prize \in {[at |-> "called", prizeBoard |-> b, n |-> 0, dpTable |-> <<>>,
                   i |-> 0, j |-> 0, result |-> 0] : b \in Boards}
    /\ schedule = [at |-> "none"]
    /\ indep = [at |-> "none"]
    /\ pc = "prize"
    /\ FrameworkIdle

\* n == 0: return 0
ReturnEmptyBoard ==
    /\ pc = "prize"
    /\ prize.at = "called"
    /\ Len(prize.prizeBoard) = 0
    /\ prize' = [prize EXCEPT !.at = "returned", !.result = 0]
    /\ UNCHANGED <<pc, schedule, indep>>
    /\ FrameworkFrame

\* the table is created and the loops start at the last square
CreateTable ==
    /\ pc = "prize"
    /\ prize.at = "called"
    /\ Len(prize.prizeBoard) # 0
    /\ prize' = [prize EXCEPT
                    !.at = "fill",
                    !.n = Len(prize.prizeBoard),
                    !.dpTable = create_table(Len(prize.prizeBoard),
                                             Len(prize.prizeBoard), -1),
                    !.i = Len(prize.prizeBoard) - 1,
                    !.j = Len(prize.prizeBoard) - 1]
    /\ UNCHANGED <<pc, schedule, indep>>
    /\ FrameworkFrame

\* the value the body of the inner loop stores in dpTable[i][j]
CellValue(prizeBoard, dpTable, n, i, j) ==
    IF i = n - 1 /\ j = n - 1 THEN prizeBoard[i + 1][j + 1]
    ELSE IF j = n - 1 THEN prizeBoard[i + 1][j + 1] + dpTable[i + 2][j + 1]
    ELSE IF i = n - 1 THEN prizeBoard[i + 1][j + 1] + dpTable[i + 1][j + 2]
    ELSE prizeBoard[i + 1][j + 1]
            + max(dpTable[i + 2][j + 1], dpTable[i + 1][j + 2])

\* one turn of the inner loop, and the step of the loops to the next square
FillCell ==
    /\ pc = "prize"
    /\ prize.at = "fill"
    /\ prize.i >= 0
    /\ prize' = [prize EXCEPT
                    !.dpTable[prize.i + 1][prize.j + 1] =
                        CellValue(prize.prizeBoard, prize.dpTable, prize.n,
                                  prize.i, prize.j),
                    !.j = IF prize.j = 0 THEN prize.n - 1 ELSE prize.j - 1,
                    !.i = IF prize.j = 0 THEN prize.i - 1 ELSE prize.i]
    /\ UNCHANGED <<pc, schedule, indep>>
    /\ FrameworkFrame

\* return dpTable[0][0]
ReturnOpt ==
    /\ pc = "prize"
    /\ prize.at = "fill"
    /\ prize.i < 0
    /\ prize' = [prize EXCEPT !.at = "returned", !.result = prize.dpTable[1][1]]
    /\ UNCHANGED <<pc, schedule, indep>>
    /\ FrameworkFrame

NextPrize ==
    \/ ReturnEmptyBoard
    \/ CreateTable
    \/ FillCell
    \/ ReturnOpt

SpecPrize == InitPrize /\ [][NextPrize]_vars

RECURSIVE RefKingPaths(_, _, _)
\* the paths of the king from square <<r, c>> to square <<n, n>>, each a
\* sequence of squares, every step one up, one right or one up and right
RefKingPaths(r, c, n) ==
    IF r = n /\ c = n THEN {<< <<r, c>> >>}
    ELSE {<< <<r, c>> >> \o p :
            p \in UNION {RefKingPaths(r + d[1], c + d[2], n) :
                           d \in {e \in {<<1, 0>>, <<0, 1>>, <<1, 1>>} :
                                     r + e[1] <= n /\ c + e[2] <= n}}}

RECURSIVE RefTotal(_, _)
\* the sum of the prizes on the squares of path
RefTotal(b, path) ==
    IF path = <<>> THEN 0
    ELSE b[Head(path)[1]][Head(path)[2]] + RefTotal(b, Tail(path))

\* the largest total over all paths of the king across b
RefMaxPrize(b) ==
    IF b = <<>> THEN 0
    ELSE LET totals == {RefTotal(b, p) : p \in RefKingPaths(1, 1, Len(b))}
         IN  CHOOSE t \in totals : \A u \in totals : u <= t

---------------------------------------------------------------------------
(* FindIndependentSet_BottomUp and FindIndependentSet_TopDown, called one  *)
(* after the other on the same array as main does.  Element i of a vector  *)
(* of the source is element i+1 of the sequence.  stack holds the          *)
(* activations of FindIndependentSetRecursively, the running one last;     *)
(* returned is the value the activation that ended last returned, and      *)
(* stores counts the assignments to each cell of dpTable.                  *)

MaxWeights == 4  \* most elements of one array of weights

\* the weights of the elements
Weights == {0, 1, 2}

WeightLists == UNION {[1..n -> Weights] : n \in 0..MaxWeights}

notValue == -1

\* the test of the memo finding no cell filled
IsKnown_Never(dpTable, k) == FALSE

\* dpTable[k] != notValue
IsKnown(dpTable, k) == dpTable[k + 1] # notValue

InitIndep ==
    /\ indep \in {[at |-> "called", weights |-> w, optValues |-> <<>>, i |-> 0,
                   bottomUp |-> 0, dpTable |-> <<>>, stack |-> <<>>,
                   returned |-> 0, stores |-> <<>>, topDown |-> 0] :
                     w \in WeightLists}
    /\ schedule = [at |-> "none"]
    /\ prize = [at |-> "none"]
    /\ pc = "indep"
    /\ FrameworkIdle

IndepFrame ==
    /\ UNCHANGED <<pc, schedule, prize>>
    /\ FrameworkFrame

\* FindIndependentSet_BottomUp up to its loop: the empty array, or the
\* table and its base cases
BottomUpBase ==
    /\ pc = "indep"
    /\ indep.at = "called"
    /\ LET w == indep.weights
           nSize == Len(w)
           zeros == [k \in 1..nSize |-> 0]
           first == [zeros EXCEPT ![1] = w[1]]
       IN  indep' =
             IF nSize = 0
             THEN [indep EXCEPT !.at = "bottomUpReturned", !.bottomUp = 0]
             ELSE [indep EXCEPT
                     !.at = "bottomUpLoop",
                     !.i = 1,
                     !.optValues = IF nSize > 1
                                   THEN [first EXCEPT ![2] = max(first[1], w[2])]
                                   ELSE first]
    /\ IndepFrame

\* one turn of the loop of FindIndependentSet_BottomUp
BottomUpStep ==
    /\ pc = "indep"
    /\ indep.at = "bottomUpLoop"
    /\ Len(indep.weights) > 1
    /\ indep.i < Len(indep.weights) - 1
    /\ indep' = [indep EXCEPT
                    !.optValues[indep.i + 2] =
                        max(indep.optValues[indep.i + 1],
                            indep.optValues[indep.i] + indep.weights[indep.i + 2]),
                    !.i = @ + 1]
    /\ IndepFrame

\* return optValues[nSize - 1]
BottomUpReturn ==
    /\ pc = "indep"
    /\ indep.at = "bottomUpLoop"
    /\ ~(Len(indep.weights) > 1 /\ indep.i < Len(indep.weights) - 1)
    /\ indep' = [indep EXCEPT !.at = "bottomUpReturned",
                              !.bottomUp = indep.optValues[Len(indep.weights)]]
    /\ IndepFrame

\* FindIndependentSet_TopDown up to its call of the recursion: the empty
\* array, or the table of notValue and the first activation
TopDownCall ==
    /\ pc = "indep"
    /\ indep.at = "bottomUpReturned"
    /\ LET nSize == Len(indep.weights)
       IN  indep' =
             IF nSize = 0
             THEN [indep EXCEPT !.at = "done", !.topDown = 0]
             ELSE [indep EXCEPT
                     !.at = "topDown",
                     !.dpTable = [k \in 1..nSize |-> notValue],
                     !.stores = [k \in 1..nSize |-> 0],
                     !.stack = <<[k |-> nSize - 1, at |-> "entry", optionA |-> 0]>>]
    /\ IndepFrame

\* the running activation of FindIndependentSetRecursively
Top == indep.stack[Len(indep.stack)]

\* the stack once the running activation has returned
Popped == SubSeq(indep.stack, 1, Len(indep.stack) - 1)

\* the running activation stores result in dpTable[k] and returns it
StoredAndReturned(result) ==
    [indep EXCEPT !.dpTable[Top.k + 1] = result,
                  !.stores[Top.k + 1] = @ + 1,
                  !.returned = result,
                  !.stack = Popped]

\* the activation finds its result in the table and returns it
ReturnKnown ==
    /\ pc = "indep"
    /\ indep.at = "topDown"
    /\ indep.stack # <<>>
    /\ Top.at = "entry"
    /\ IsKnown(indep.dpTable, Top.k)
    /\ indep' = [indep EXCEPT !.returned = indep.dpTable[Top.k + 1],
                              !.stack = Popped]
    /\ IndepFrame

\* the base cases k == 0 and k == 1
BaseCase ==
    /\ pc = "indep"
    /\ indep.at = "topDown"
    /\ indep.stack # <<>>
    /\ Top.at = "entry"
    /\ ~IsKnown(indep.dpTable, Top.k)
    /\ Top.k \in {0, 1}
    /\ indep' = StoredAndReturned(
                    IF Top.k = 0 THEN indep.weights[1]
                    ELSE max(indep.weights[1], indep.weights[2]))
    /\ IndepFrame

\* the main case calls itself for k - 1
CallOptionA ==
    /\ pc = "indep"
    /\ indep.at = "topDown"
    /\ indep.stack # <<>>
    /\ Top.at = "entry"
    /\ ~IsKnown(indep.dpTable, Top.k)
    /\ Top.k >= 2
    /\ indep' = [indep EXCEPT
                    !.stack = Append([indep.stack EXCEPT
                                         ![Len(indep.stack)].at = "optionA"],
                                     [k |-> Top.k - 1, at |-> "entry",
                                      optionA |-> 0])]
    /\ IndepFrame

\* optionA is what the call returned; the activation calls itself for k - 2
CallOptionB ==
    /\ pc = "indep"
    /\ indep.at = "topDown"
    /\ indep.stack # <<>>
    /\ Top.at = "optionA"
    /\ indep' = [indep EXCEPT
                    !.stack = Append([indep.stack EXCEPT
                                         ![Len(indep.stack)].at = "optionB",
                                         ![Len(indep.stack)].optionA =
                                             indep.returned],
                                     [k |-> Top.k - 2, at |-> "entry",
                                      optionA |-> 0])]
    /\ IndepFrame

\* optionB is what the call returned plus weights[k]; the larger option is
\* stored and returned
ReturnLarger ==
    /\ pc = "indep"
    /\ indep.at = "topDown"
    /\ indep.stack # <<>>
    /\ Top.at = "optionB"
    /\ indep' = StoredAndReturned(
                    max(Top.optionA, indep.returned + indep.weights[Top.k + 1]))
    /\ IndepFrame

\* the first activation has returned and FindIndependentSet_TopDown returns
TopDownReturn ==
    /\ pc = "indep"
    /\ indep.at = "topDown"
    /\ indep.stack = <<>>
    /\ indep' = [indep EXCEPT !.at = "done", !.topDown = indep.returned]
    /\ IndepFrame

NextIndep ==
    \/ BottomUpBase
    \/ BottomUpStep
    \/ BottomUpReturn
    \/ TopDownCall
    \/ ReturnKnown
    \/ BaseCase
    \/ CallOptionA
    \/ CallOptionB
    \/ ReturnLarger
    \/ TopDownReturn

SpecIndep == InitIndep /\ [][NextIndep]_vars

\* every statement that can run does run in the end
SpecIndepFair == SpecIndep /\ WF_vars(NextIndep)

\* the sets of positions of w that hold no two neighbours
RefIndependentSets(w) ==
    {S \in SUBSET (1..Len(w)) : \A k \in S : k + 1 \notin S}

RECURSIVE RefWeight(_, _)
\* the sum of the weights of w at the positions S
RefWeight(w, S) ==
    IF S = {} THEN 0
    ELSE LET k == CHOOSE x \in S : TRUE
         IN  w[k] + RefWeight(w, S \ {k})

\* the largest weight of an independent set of w
RefMaxIndependentSet(w) ==
    LET sums == {RefWeight(w, S) : S \in RefIndependentSets(w)}
    IN  CHOOSE t \in sums : \A u \in sums : u <= t

---------------------------------------------------------------------------
(* The claims.                                                             *)

\* C1: when FromString returns false, for every column kind and every text
\* that fails to parse, the bound field holds exactly the value it held
\* before the call.
C1_FailedFromStringKeepsField ==
    (pc = "parsed" /\ ~ret) => field = before

\* C2: integer round trip: for every 32-bit v, 0, INT_MAX and INT_MIN
\* included, parsing the text Encode(v) left in a fresh string returns true
\* with result v.
C2_IntRoundTrip ==
    (pc = "reparsed" /\ kind = "int" /\ outBefore = <<>>)
        => (ret /\ parsedBack = field)

C2_Witness ==
    /\ pc = "reparsed"
    /\ kind = "int"
    /\ outBefore = <<>>
    /\ field = IntMin
    /\ ret
    /\ parsedBack = IntMin

\* C3: integer Parse agrees with the reference recogniser: it returns true
\* exactly when the trimmed text is an optional '-' and one or more digits
\* of a value in [-2147483648, 2147483647], the result then being that
\* value; "2147483648" and "-2147483649" fail, "2147483647" and
\* "-2147483648" succeed, and no wrapped value is returned.
C3_ParseIntIsReference ==
    (pc = "parsed" /\ kind = "int") =>
        /\ ret = RefInt(text).valid
        /\ ret => field = RefInt(text).value
        /\ text \in {<<>>, <<"-">>,
                     <<"2","1","4","7","4","8","3","6","4","8">>,
                     <<"-","2","1","4","7","4","8","3","6","4","9">>} => ~ret
        /\ text = <<"2","1","4","7","4","8","3","6","4","7">>
              => (ret /\ field = IntMax)
        /\ text = <<"-","2","1","4","7","4","8","3","6","4","8">>
              => (ret /\ field = IntMin)

C3_Witness ==
    /\ pc = "parsed"
    /\ kind = "int"
    /\ text = <<"2","1","4","7","4","8","3","6","4","8">>
    /\ ~ret

\* C4: Encode(int, out) leaves out equal to exactly the decimal text of the
\* value, whatever out held before the call.
C4_EncodeIntIsDecimalText ==
    (pc = "encoded" /\ kind = "int") => out = RefDecimal(field)

\* C5: integer sequence round trip: Encode gives "[]" for the empty
\* sequence and "[v1,v2,...]" without spaces otherwise, and parsing that
\* text returns true with the same elements in the same order.
C5_IntVectorRoundTrip ==
    (pc \in {"encoded", "reparsed"} /\ kind = "ints") =>
        /\ out = RefVectorText(field)
        /\ pc = "reparsed" => (ret /\ parsedBack = field)

C5_Witness ==
    /\ pc = "reparsed"
    /\ kind = "ints"
    /\ Len(field) = MaxSeq
    /\ field[1] = IntMin
    /\ field[2] = IntMin
    /\ outBefore # <<>>
    /\ parsedBack = field

\* C6: integer sequence Parse returns true only for a bracket pair whose
\* comma-separated elements, empty ones included, all parse as integers,
\* and then reports every element.
C6_MalformedElementFailsParse ==
    (pc = "parsed" /\ kind = "ints" /\ ret) =>
        /\ RefIsVectorText(text)
        /\ RefInner(text) # <<>> => Len(field) = Len(RefTokens(RefInner(text)))

\* C7, as stated: Parse returns (true, ok) for every letter-case variant of
\* "true" and "yes", (false, ok) for every variant of "false" and "no", and
\* fails for every other text; Encode gives "yes" and "no", which parse back.
C7_BoolCodecOnRawText ==
    /\ (pc = "parsed" /\ kind = "bool") =>
          IF text \in TrueWords THEN ret /\ field = TRUE
          ELSE IF text \in FalseWords THEN ret /\ field = FALSE
          ELSE ~ret
    /\ (pc \in {"encoded", "reparsed"} /\ kind = "bool") =>
          /\ out = IF field THEN <<"y","e","s">> ELSE <<"n","o">>
          /\ pc = "reparsed" => (ret /\ parsedBack = field)

\* C7, amended: the same with the text taken after trimming surrounding
\* white space: a text fails exactly when its trimmed form is no variant of
\* the four words.
C7_BoolCodecOnTrimmedText ==
    /\ (pc = "parsed" /\ kind = "bool") =>
          IF RefTrim(text) \in TrueWords THEN ret /\ field = TRUE
          ELSE IF RefTrim(text) \in FalseWords THEN ret /\ field = FALSE
          ELSE ~ret /\ field = before
    /\ (pc \in {"encoded", "reparsed"} /\ kind = "bool") =>
          /\ out = IF field THEN <<"y","e","s">> ELSE <<"n","o">>
          /\ pc = "reparsed" => (ret /\ parsedBack = field)

C7_Witness ==
    /\ pc = "parsed"
    /\ kind = "bool"
    /\ text = <<"Y","e","S">>
    /\ before = FALSE
    /\ ret
    /\ field = TRUE

\* C8: string Parse succeeds exactly when the trimmed text has at least two
\* characters, the first and the last being '"', the result then being the
\* text between them; and Parse(Encode(s)) = (s, true).
C8_StringCodec ==
    /\ (pc = "parsed" /\ kind = "string") =>
          LET s == RefTrim(text)
          IN  IF Len(s) >= 2 /\ s[1] = "\"" /\ s[Len(s)] = "\""
              THEN ret /\ field = SubSeq(s, 2, Len(s) - 1)
              ELSE ~ret
    /\ (pc \in {"encoded", "reparsed"} /\ kind = "string") =>
          /\ out = <<"\"">> \o field \o <<"\"">>
          /\ pc = "reparsed" => (ret /\ parsedBack = field)

C8_Witness ==
    /\ pc = "reparsed"
    /\ kind = "string"
    /\ field = <<"\"", " ", "a">>
    /\ ret
    /\ parsedBack = field

C9_Names ==
    /\ \A i, j \in 1..Len(columnSpecs) :
          i # j => ~RefSameName(columnSpecs[i].name, columnSpecs[j].name)
    /\ Cardinality(DOMAIN name2id) = Len(columnSpecs)
    /\ \A i \in 1..Len(columnSpecs) :
          \A v \in CaseVariants(columnSpecs[i].name) :
             GetColumnByName(v) = [ok |-> TRUE, col |-> i - 1]

C9_Step ==
    call'.op = "AddNamedColumn" =>
        IF \E i \in 1..Len(columnSpecs) :
               RefSameName(columnSpecs[i].name, call'.name)
        THEN /\ ~call'.ok
             /\ columnSpecs' = columnSpecs
             /\ name2id' = name2id
        ELSE /\ call'.ok
             /\ Len(columnSpecs') = Len(columnSpecs) + 1
             /\ SubSeq(columnSpecs', 1, Len(columnSpecs)) = columnSpecs
             /\ columnSpecs'[Len(columnSpecs')].name = call'.name

\* C9: AddNamedColumn returns false and changes neither the column list
\* nor the name index when the name equals a registered one after case
\* folding, and otherwise returns true and appends the column at index
\* ColumnCount()-1; at all times the names are pairwise distinct up to
\* case, the index has one entry per column, and GetColumnByName of any
\* case variant of column i's name returns i.
C9_AddNamedColumn == [](C9_Names) /\ [][C9_Step]_vars

C9_Witness ==
    /\ call.op = "AddNamedColumn"
    /\ ~call.ok
    /\ Len(columnSpecs) = 2
    /\ \A i \in 1..Len(columnSpecs) : columnSpecs[i].name # call.name

C10_Step ==
    call'.op = "NewRow" =>
        /\ call'.ok
        /\ call'.row = Len(data)
        /\ Len(data') = Len(data) + 1
        /\ \A i \in 1..Len(data) : data'[i] = data[i]
        /\ \A c \in 1..Len(columnSpecs') :
              data'[call'.row + 1][columnSpecs'[c].member]
                  = columnSpecs'[c].defaultValue

\* C10: every NewRow of a growable table succeeds, returns the row count
\* before the call, adds exactly one row, leaves the earlier rows as they
\* were, and the new row equals the default in every registered column.
C10_NewRow == [][C10_Step]_vars

C10_Witness ==
    /\ call.op = "NewRow"
    /\ call.row = 1
    /\ Len(data) = 2
    /\ Len(columnSpecs) = 2
    /\ data[1] # data[2]
    /\ \A c \in 0..(ColumnCount - 1) : EqualsDefaultValue(1, c)

\* C11: a fixed table (RecordAdapter) has one row after any sequence of
\* operations, and every NewRow call on it returns false and leaves the
\* record and the row count as they were.
C11_Step ==
    (pc = "record" /\ call'.op = "NewRow") =>
        /\ ~call'.ok
        /\ header' = header
        /\ call'.rowCount = 1

C11_FixedTable ==
    /\ [](pc = "record" => Len(RecordRows(header)) = 1)
    /\ [][C11_Step]_vars

\* NewRow was called on a header record that earlier calls had changed
C11_Witness ==
    /\ pc = "record"
    /\ call.op = "NewRow"
    /\ header.problem_count = 42

\* the columns of the header table whose registered name is key up to
\* letter case
C12_Columns(key) ==
    {c \in 0..(Len(HeaderTable.columnSpecs) - 1) :
        RefSameName(HeaderTable.columnSpecs[c + 1].name, key)}

\* C12: name-based GetValue and SetValue return false, change no record and
\* fail no bounds assertion when the key matches no registered column, for
\* any row argument; when the key matches a column in any letter case they
\* do what the index-based call on that column does.
C12_Step ==
    (pc = "record" /\ call'.op \in {"SetValueByName", "GetValueByName"}) =>
        IF C12_Columns(call'.key) = {}
        THEN /\ ~call'.ok
             /\ ~call'.asserted
             /\ header' = header
             /\ out' = out
        ELSE \A c \in C12_Columns(call'.key) :
                IF call'.op = "SetValueByName"
                THEN LET r == SetValueAt(HeaderTable, RecordRows(header),
                                         call'.row, c, call'.value)
                     IN  /\ call'.ok = r.ok
                         /\ call'.asserted = r.asserted
                         /\ header' = r.records[1]
                         /\ out' = out
                ELSE LET r == GetValueAt(HeaderTable, RecordRows(header),
                                         call'.row, c, out)
                     IN  /\ call'.ok = r.ok
                         /\ call'.asserted = r.asserted
                         /\ out' = r.value
                         /\ header' = header

C12_NameBasedAccess == [][C12_Step]_vars

\* a value was stored through a key written in another letter case
C12_Witness ==
    /\ pc = "record"
    /\ call.op = "SetValueByName"
    /\ call.key = <<"P", "R", "O", "B", "L", "E", "M", "S">>
    /\ call.ok
    /\ header.problem_count = 42

\* a step of the loop of ParseFile: one more line was read
LineRead == pc = "parser" /\ parse = "reading" /\ consumed' = consumed + 1

\* the line read in this step ended the parse with a failure: ParseFile
\* raised a ParseError in strict mode, returned with IsOK() false otherwise
LineFailed ==
    IF throwOnError
    THEN parse' = "raised" /\ raised'.type = "ParseError"
    ELSE parse' = "returned" /\ ~isOK' /\ raised'.type = "none"

\* C13: a line whose first non-blank character is '-', read while the
\* parser is in the header section, is a parse failure in strict and in
\* lenient mode and appends no row to the data table.
C13_Step ==
    (LineRead /\ isHeaderSection /\ RefIsDash(line')) =>
        /\ LineFailed
        /\ ~isOK'
        /\ data' = data

C13_DashInHeaderFails == [][C13_Step]_vars

\* a strict parse raised on a '-' line that followed a line of the header
C13_Witness ==
    /\ parse = "raised"
    /\ isHeaderSection
    /\ RefIsDash(line)
    /\ consumed >= 2

\* C14: a key/value line without a leading '-', read in the data section
\* while the data table has no row, is a parse failure and changes neither
\* the header record nor the data table, whatever its key and value.
C14_Step ==
    (LineRead /\ ~isHeaderSection /\ data = <<>>
       /\ RefIsKeyValue(line') /\ ~RefIsDash(line')) =>
        /\ LineFailed
        /\ header' = header
        /\ data' = data

C14_PairWithoutRowFails == [][C14_Step]_vars

\* a well-formed pair of a registered column failed for want of a row
C14_Witness ==
    /\ parse \in {"returned", "raised"}
    /\ ~isHeaderSection
    /\ data = <<>>
    /\ line = <<"p", "r", "o", "b", "l", "e", "m", ":", " ", "1">>

\* C15: a key/value line whose key is no registered column of its section's
\* table, or whose value is no text of the column's kind, is a parse
\* failure in either section; in strict mode the ParseError carries the
\* file name and the 1-based number of that line among all lines read,
\* blank and comment lines included.
C15_Step ==
    (LineRead /\ RefIsKeyValue(line')
       /\ \E b \in {RefBody(line')} :
             RefPairRejected(IF isHeaderSection THEN HeaderTable.columnSpecs
                             ELSE ProblemTable.columnSpecs, b)) =>
        /\ LineFailed
        /\ throwOnError =>
              /\ raised'.file = currentFile
              /\ raised'.line = consumed'

C15_RejectedPairFails == [][C15_Step]_vars

\* a malformed header value on the third line, after two lines that stored
\* nothing, raised a ParseError for line 3
C15_Witness ==
    /\ parse = "raised"
    /\ line = <<"P", "r", "o", "b", "l", "e", "m", "s", ":", " ", "x">>
    /\ raised.line = 3
    /\ raised.file = "in.yaml"
    /\ header = [ProblemSetHeader EXCEPT !.problem_count = 0]

\* C16: every parse starts in the header section; a line that is "data:"
\* when trimmed moves it to the data section; in the data section no line
\* moves it back and no line of that parse changes the header record.
C16_Step ==
    pc = "parser" =>
        /\ (parse # "reading" /\ parse' = "reading") => isHeaderSection'
        /\ (LineRead /\ RefTrim(line') = <<"d", "a", "t", "a", ":">>) =>
              ~isHeaderSection' /\ parse' = "reading"
        /\ (parse = "reading" /\ ~isHeaderSection) =>
              ~isHeaderSection' /\ header' = header

C16_SectionMachine == [][C16_Step]_vars

\* a line naming a header column was read in the data section of a parse
\* that followed one which had filled the header
C16_Witness ==
    /\ ~isHeaderSection
    /\ line = <<"p", "r", "o", "b", "l", "e", "m", "s", ":", " ", "2">>
    /\ header.problem_count = 2
    /\ Len(data) = 2

\* C17: in lenient mode ParseFile never raises; at the first failure (a file
\* that does not open, a line that fails) it returns with IsOK() false and
\* nothing after that changes the header record or the data table; when no
\* line fails it returns with IsOK() true.
C17_Step ==
    (pc = "parser" /\ ~throwOnError') =>
        /\ parse' # "raised"
        /\ raised'.type = "none"
        /\ parse # "reading" =>
              /\ header' = header
              /\ data' = data
              /\ IF Opens(currentFile') THEN parse' = "reading" /\ isOK'
                 ELSE parse' = "returned" /\ ~isOK'
        /\ LineRead =>
              IF RefLineFails(line', isHeaderSection, Len(data))
              THEN parse' = "returned" /\ ~isOK'
              ELSE parse' = "reading" /\ isOK'
        /\ (parse = "reading" /\ consumed' = consumed) =>
              /\ parse' = "returned"
              /\ isOK'
              /\ header' = header
              /\ data' = data

C17_LenientParse == [][C17_Step]_vars

\* a lenient parse stopped at a malformed value of the second row
C17_Witness ==
    /\ ~throwOnError
    /\ parse = "returned"
    /\ ~isOK
    /\ Len(data) = 2
    /\ line = <<"p", "r", "o", "b", "l", "e", "m", ":", " ", "x">>

\* C18: full round trip: what WriteTableToStream writes with
\* writeDefaultValues = true, parsed by a BasicYamlParser over fresh storage
\* with the same columns, parses without failure and gives the same number
\* of rows in the same order, with every column-bound field of the header
\* and of each row equal to the original.
C18_FullRoundTrip ==
    (pc = "writer" /\ reparsed.done /\ stream.writeDefaultValues) =>
        RefRestored

\* two different rows whose strings hold ':' and '#' came back
C18_Witness ==
    /\ pc = "writer"
    /\ reparsed.done
    /\ stream.writeDefaultValues
    /\ Len(data) = 2
    /\ data[1].helpMsg = <<"a", ":", "b">>
    /\ data[2].helpMsg = <<" ", "-", " ", "x", " ", "#">>
    /\ reparsed.parser.data[2].helpMsg = <<" ", "-", " ", "x", " ", "#">>

\* C19: sparse output: with writeDefaultValues = false the stream holds a
\* key line for a field exactly when the field differs from its column's
\* default, and parsing the stream into fresh storage gives every omitted
\* field its default, so that every column-bound field of the header and of
\* every row equals the original.
C19_SparseRoundTrip ==
    /\ (pc = "writer" /\ stream.written /\ ~stream.writeDefaultValues) =>
          RefKeysOf(RefLines(stream.text)) =
              RefNamesToWrite(HeaderTable.columnSpecs, header, FALSE)
              \o RefRowNamesToWrite(data, FALSE)
    /\ (pc = "writer" /\ reparsed.done /\ ~stream.writeDefaultValues) =>
          RefRestored

\* C20: PreprocessProblemSet raises unless the header's id is the expected
\* one, its problem count is the number of rows and row i holds id i+1,
\* and raises nothing when all three hold; it changes no problem record and
\* sets the start timestamp only when the validation passed; main runs the
\* algorithm on no row of an inconsistent problem set.
C20_Step ==
    (pc = "runner" /\ run.at = "parsed" /\ run'.at # "parsed") =>
        /\ (run'.at = "terminated") <=> ~RefConsistent
        /\ (run'.at = "solving") <=> RefConsistent
        /\ data' = data
        /\ run'.tStart = IF RefConsistent THEN "now" ELSE run.tStart

C20_Validation ==
    /\ [](pc = "runner" =>
            /\ run.at \in {"solving", "solved"} =>
                  run.tStart = "now" /\ header.problem_count = Len(data)
            /\ run.at = "terminated" =>
                  /\ run.tStart = "epoch"
                  /\ \A r \in 1..Len(data) : data[r].student_answer = 0)
    /\ [][C20_Step]_vars

\* a problem set with the right id and count whose rows are out of order
\* ended the run before any problem was solved
C20_Witness ==
    /\ pc = "runner"
    /\ run.at = "terminated"
    /\ header.id = 1005230
    /\ header.problem_count = 2
    /\ Len(data) = 2
    /\ data[1].id = 2
    /\ data[2].id = 1

\* C21 as stated: a key/value line, or the remainder of a line after its
\* leading '-', that does not hold exactly one ':' with a non-empty trimmed
\* key before it and a non-empty trimmed value after it is a parse failure.
C21_Step ==
    (LineRead /\ RefIsKeyValue(line')
       /\ \E b \in {RefBody(line')} :
             \/ Cardinality(RefColons(b)) # 1
             \/ RefKey(b) = <<>>
             \/ RefValue(b) = <<>>) =>
        LineFailed

C21_ExactlyOneColon == [][C21_Step]_vars

\* C21 amended: the pair is cut at its first ':'.  A line with no ':', with
\* an empty trimmed key or with an empty trimmed value is a parse failure;
\* every ':' after the first belongs to the value, and a pair line fails
\* exactly when the reference reading of it at the first ':' fails.
C21_AmendedStep ==
    (LineRead /\ RefIsKeyValue(line')) =>
        /\ (\E b \in {RefBody(line')} :
              \/ RefColons(b) = {}
              \/ RefKey(b) = <<>>
              \/ RefValue(b) = <<>>) => LineFailed
        /\ LineFailed <=> RefLineFails(line', isHeaderSection, Len(data))
        /\ ~LineFailed => parse' = "reading" /\ isOK'

C21_SplitAtFirstColon == [][C21_AmendedStep]_vars

\* a pair with two ':' was accepted: the text between the quotes, a ':',
\* is the message of the last row
C21_Witness ==
    /\ parse = "reading"
    /\ isOK
    /\ line = <<"m", "s", "g", ":", " ", "\"", ":", "\"">>
    /\ data # <<>>
    /\ data[Len(data)].helpMsg = <<":">>

\* the value a column of kind k holds once it took the text v
RefStored(k, v) ==
    CASE k = "int"    -> RefInt(v).value
      [] k = "string" -> SubSeq(v, 2, Len(v) - 1)

\* a row of the problem table as TableAdapter::NewRow leaves it
RefNewRow ==
    [id |-> -1, correct_answer |-> -1, student_answer |-> 0, helpMsg |-> <<>>]

\* new differs from old in no member but the one bound to a column of
\* specs named k, which holds the value of the text v
RefOnlyNamedField(specs, k, v, old, new) ==
    \E c \in RefColumns(specs, k) :
        /\ new[specs[c].member] = RefStored(specs[c].kind, v)
        /\ \A o \in DOMAIN old \ {specs[c].member} : new[o] = old[o]

\* C22: an accepted key/value line read in the header section changes only
\* the named field of the header record and leaves the data table as it
\* was; read in the data section it changes only the named field of the
\* last row (the row its own leading '-' appended, if it has one) and
\* leaves the header, every other row and every other field of that row
\* unchanged.
C22_Step ==
    (LineRead /\ RefIsKeyValue(line') /\ ~LineFailed) =>
        \E b \in {RefBody(line')} : \E k \in {RefKey(b)}, v \in {RefValue(b)} :
            IF isHeaderSection
            THEN /\ data' = data
                 /\ RefOnlyNamedField(HeaderTable.columnSpecs, k, v,
                                      header, header')
            ELSE /\ header' = header
                 /\ Len(data') = Len(data) + (IF RefIsDash(line') THEN 1 ELSE 0)
                 /\ \A i \in 1..(Len(data') - 1) : data'[i] = data[i]
                 /\ RefOnlyNamedField(ProblemTable.columnSpecs, k, v,
                        IF RefIsDash(line') THEN RefNewRow
                        ELSE data[Len(data)],
                        data'[Len(data')])

C22_PairTarget == [][C22_Step]_vars

\* a pair without '-' was stored in the second row while the first row,
\* which holds another value, and the other fields of the second row stayed
C22_Witness ==
    /\ parse = "reading"
    /\ ~isHeaderSection
    /\ line = <<"m", "s", "g", ":", " ", "\"", ":", "\"">>
    /\ Len(data) = 2
    /\ data[1].id = 1
    /\ data[1].helpMsg = <<>>
    /\ data[2].id = -1
    /\ data[2].helpMsg = <<":">>

\* C26: IsOK() reports the outcome of the last ParseFile call in both
\* modes: when ParseFile ends, by returning or by raising, IsOK() is true
\* exactly if the call ran to the end of the file, every line processed
\* without failure, and false after every failure.
C26_Step ==
    (pc = "parser" /\ parse' \in {"returned", "raised"}) =>
        (isOK' <=> (parse = "reading" /\ consumed' = consumed))

C26_IsOKReportsOutcome == [][C26_Step]_vars

\* C27: during a parse the row count of the data table never decreases; a
\* line read grows it by exactly one if it is a '-' line read in the data
\* section and by zero otherwise, and leaves the rows already there in
\* their places; ParseFile does not clear the caller's list, so when a
\* parse ends without failure the row count is the count before the call
\* plus the number of '-' lines of the file.
C27_Step ==
    pc = "parser" =>
        /\ Len(data') >= Len(data)
        /\ ~LineRead => data' = data
        /\ LineRead =>
              /\ Len(data') = Len(data)
                    + (IF ~isHeaderSection /\ RefIsDash(line') THEN 1 ELSE 0)
              /\ \A i \in 1..(Len(data) - 1) : data'[i] = data[i]
              /\ (Len(data') > Len(data) /\ data # <<>>) =>
                    data'[Len(data)] = data[Len(data)]
              /\ call'.rows = call.rows
              /\ call'.dashes = call.dashes
                    + (IF RefIsDash(line') THEN 1 ELSE 0)
        /\ (parse' = "returned" /\ isOK') =>
              Len(data') = call'.rows + call'.dashes

C27_RowCount == [][C27_Step]_vars

\* a parse of a file with one '-' line, on a list that held one row, ended
\* without failure with two rows
C27_Witness ==
    /\ parse = "returned"
    /\ isOK
    /\ call.op = "ParseFile"
    /\ call.rows = 1
    /\ call.dashes = 1
    /\ Len(data) = 2
    /\ data[1].id = 1

\* C28: a '-' line read in the data section appends its row before the
\* remainder of the line is examined.  When the remainder fails as a pair
\* the parse fails, the rows already there stay, and the appended row stays
\* as the last row with every column at its default, except the field of
\* the named column when it was its value that failed to parse; the row
\* count is one higher than before the line.
C28_Step ==
    (LineRead /\ ~isHeaderSection /\ RefIsDash(line')
       /\ \E b \in {RefBody(line')} :
             b # <<>> /\ RefPairFails(b, FALSE, Len(data) + 1)) =>
        /\ LineFailed
        /\ header' = header
        /\ Len(data') = Len(data) + 1
        /\ SubSeq(data', 1, Len(data)) = data
        /\ \A o \in DOMAIN RefNewRow :
              \/ data'[Len(data')][o] = RefNewRow[o]
              \/ \E k \in {RefKey(RefBody(line'))} :
                    \E c \in RefColumns(ProblemTable.columnSpecs, k) :
                        ProblemTable.columnSpecs[c].member = o

C28_RowStaysAfterFailure == [][C28_Step]_vars

\* the remainder of a '-' line had a malformed value: the parse failed and
\* the row it appended is the second row of the table, its id set to 0 by
\* the integer parse that failed
C28_Witness ==
    /\ parse \in {"returned", "raised"}
    /\ ~isHeaderSection
    /\ line = <<"-", " ", "p", "r", "o", "b", "l", "e", "m", ":", " ", "x">>
    /\ Len(data) = 2
    /\ call.rows + call.dashes = 2
    /\ data[2].id = 0
    /\ data[2].correct_answer = -1
    /\ data[2].helpMsg = <<>>

\* C29: parser state does not leak across calls.  Every ParseFile call on
\* the same parser sets the line number to 0 and, when the file opens,
\* starts reading with IsOK() true in the header section, however the call
\* before ended; so the first line of the file, if an accepted pair, is
\* stored in the header and leaves the data table alone, and if a '-' line
\* it is a failure.
C29_Step ==
    /\ (pc = "parser" /\ parse # "reading") =>
          /\ lineNumber' = 0
          /\ Opens(currentFile') =>
                parse' = "reading" /\ isOK' /\ isHeaderSection'
          /\ ~Opens(currentFile') => parse' # "reading" /\ ~isOK'
    /\ (LineRead /\ consumed = 0) =>
          /\ isOK /\ isHeaderSection /\ lineNumber = 0
          /\ RefIsDash(line') => LineFailed /\ data' = data
          /\ (RefIsKeyValue(line') /\ ~LineFailed) =>
                /\ data' = data
                /\ \E b \in {RefBody(line')} :
                      RefOnlyNamedField(HeaderTable.columnSpecs, RefKey(b),
                                        RefValue(b), header, header')

C29_NoLeakAcrossCalls == [][C29_Step]_vars

\* the call before this one ended in the data section with a row appended
\* and a failure recorded; the first line of this file went to the header
C29_Witness ==
    /\ parse = "reading"
    /\ consumed = 1
    /\ call.op = "ParseFile"
    /\ call.rows = 2
    /\ data[2].id = 0
    /\ line = <<"p", "r", "o", "b", "l", "e", "m", "s", ":", " ", "2">>
    /\ header.problem_count = 2
    /\ isHeaderSection
    /\ isOK

\* C23: FindMaxSchedule returns, for every collection of jobs with
\* start <= finish, of any sign and in any order, duplicates and jobs of
\* length zero among them, the size of a largest set of jobs no two of
\* which overlap, where a job may start when another finishes; the
\* collection it was given is not modified.
C23_MaxSchedule ==
    (pc = "scheduler" /\ schedule.at = "returned") =>
        schedule.result = RefMaxSchedule(schedule.jobs)

\* C24: FindMaxPrizeCollectingPath returns, for every n x n board of
\* non-negative prizes, the largest total prize over all paths of the king
\* from one corner to the opposite corner, every step one square up, one
\* right or one diagonally up and right, the prizes of the first and the
\* last square counted; 0 for the empty board and the prize itself for a
\* board of one square.
C24_MaxPrize ==
    (pc = "prize" /\ prize.at = "returned") =>
        /\ prize.result = RefMaxPrize(prize.prizeBoard)
        /\ Len(prize.prizeBoard) = 0 => prize.result = 0
        /\ Len(prize.prizeBoard) = 1 => prize.result = prize.prizeBoard[1][1]

\* a board of side 2 whose better path goes by the square with prize 2
C24_Witness ==
    /\ pc = "prize"
    /\ prize.at = "returned"
    /\ prize.prizeBoard = << <<1, 0>>, <<2, 1>> >>
    /\ prize.result = 4

\* both functions have returned
C25_Done == pc = "indep" /\ indep.at = "done"

\* each cell of dpTable has been assigned at most once
C25_StoredOnce ==
    (pc = "indep" /\ indep.at \in {"topDown", "done"}) =>
        \A k \in 1..Len(indep.stores) : indep.stores[k] <= 1

\* both functions returned the largest weight of an independent set
C25_SameMaximum ==
    C25_Done =>
        /\ indep.bottomUp = indep.topDown
        /\ indep.topDown = RefMaxIndependentSet(indep.weights)

\* C25: for every array of non-negative weights, the empty array and the
\* arrays of one and two elements among them, FindIndependentSet_BottomUp
\* and FindIndependentSet_TopDown return the same value, the largest sum of
\* weights over the sets of positions with no two neighbours; the recursion
\* of the top-down function ends, and it assigns each cell of its table at
\* most once.
C25_BottomUpEqualsTopDown ==
    /\ [](C25_StoredOnce /\ C25_SameMaximum)
    /\ <>C25_Done

\* on four elements the recursion found a cell filled and returned it, and
\* the best set is the two outer elements
C25_Witness ==
    /\ C25_Done
    /\ indep.weights = <<2, 1, 1, 2>>
    /\ indep.topDown = 4
    /\ \A k \in 1..4 : indep.stores[k] = 1

===========================================================================
